---- MODULE Spec2Model ----
(***************************************************************************)
(* Model of the persistent OCR worker of Smart Bill Manager                *)
(* (scripts/ocr_worker.py): the JSON-lines protocol loop `main`, the       *)
(* request handler `RapidOCRWorker.recognize`, and the per-profile session *)
(* cache with its one-shot rebuild (`_get_ocr`, `_run_ocr_once`).          *)
(*                                                                         *)
(* The OCR engine is external: its constructor and every invocation either *)
(* return or raise, chosen nondeterministically.  An engine output is      *)
(* abstracted to the image it was computed from and the number of text     *)
(* lines it holds; all lines are taken to have the same text and           *)
(* confidence, so that score_lines is proportional to the line count.      *)
(***************************************************************************)
EXTENDS Integers, Sequences, FiniteSets, TLC

\* ------------------------------------------------------------------ bounds
\* lines (blank or not) the worker reads before only end-of-input is left
MaxInput == 2
\* largest number of text lines in one engine output
MaxLines == 1
\* failures of the environment (the engine constructor or an invocation
\* raising, a variant that cannot be rendered or saved) in one run of the
\* worker, those of the warmup included
MaxFaults == 2

\* ------------------------------------------------------- JSON field values
\* A JSON value as Python sees it: its type and its str() rendering.
\* req.get(key) returns None for a missing key and for a JSON null.
None == [ty |-> "null", txt |-> "None"]
JStr(s) == [ty |-> "str", txt |-> s]
JNum(s) == [ty |-> "num", txt |-> s]
JBool(b) == [ty |-> "bool", txt |-> IF b THEN "True" ELSE "False"]

\* Python truth value of a JSON value (the left operand of `x or d`)
Truthy(v) ==
    ~ \/ v.ty = "null"
      \/ (v.ty = "str" /\ v.txt = "")
      \/ (v.ty = "num" /\ v.txt = "0")
      \/ (v.ty = "bool" /\ v.txt = "False")

\* str(v or d) for a string default d
StrOr(v, d) == IF Truthy(v) THEN v.txt ELSE d

\* s.strip().lower() on the strings the model sends
StripLower(s) ==
    CASE s = " PING " -> "ping"
      [] s = " PDF " -> "pdf"
      [] OTHER -> s

\* a lone surrogate, which json.loads accepts ("\ud800") and the UTF-8
\* encoder of sys.stdout rejects
Surrogate == "\\ud800"
Encodable(s) == s # Surrogate

\* --------------------------------------------------------------- the input
Ids == {None, JStr("7"), JNum("0"), JStr(Surrogate)}
PingTypes == {JStr("ping"), JStr(" PING ")}
OcrTypes == {None, JStr("scan")}
Paths == {None, JStr("/missing.png"), JStr("/blob.bin"), JStr("/scan.png")}
ProfileVals == {None, JStr(" PDF "), JStr("a4")}
DebugVals == {None, JBool(TRUE)}

\* (variant) the existence test left out
PathExistsAlways(p) == TRUE
\* os.path.exists(path)
PathExists(p) == p \in {"/blob.bin", "/scan.png"}
\* load_pil_image(path) returns an image
IsImage(p) == p = "/scan.png"

\* One stripped, non-blank input line: text that is not JSON, JSON that is
\* not an object, or a JSON object with the fields main reads.
Garbage == [kind |-> "garbage"]
NonObject == [kind |-> "nonobject"]
PingLines ==
    {[kind |-> "object", id |-> i, type |-> t, image_path |-> None,
      profile |-> None, debug |-> None] : i \in Ids, t \in PingTypes}
\* OCR requests: every path with every profile, and around one plain
\* request every id (with and without an image), every type and debug
PlainLine ==
    [kind |-> "object", id |-> JStr("7"), type |-> None,
     image_path |-> JStr("/scan.png"), profile |-> None, debug |-> None]
OcrLines ==
    {[PlainLine EXCEPT !.image_path = p, !.profile = q] :
        p \in Paths, q \in ProfileVals}
    \cup {[PlainLine EXCEPT !.id = i, !.image_path = p] :
        i \in Ids, p \in {None, JStr("/scan.png")}}
    \cup {[PlainLine EXCEPT !.type = t] : t \in OcrTypes}
    \cup {[PlainLine EXCEPT !.debug = d, !.profile = q] :
        d \in DebugVals, q \in ProfileVals}
Lines == {Garbage, NonObject} \cup PingLines \cup OcrLines
NoLine == [kind |-> "none"]

\* ------------------------------------------------------------- environment
\* os.getenv("SBM_RAPIDOCR_MULTIPASS"), os.getenv("SBM_RAPIDOCR_ROTATE180")
EnvMultipass == {"None", "0", "2"}
EnvRotate == {"None"}

truthy(v) == v \in {"1", "true", "yes", "y", "on"}

safe_int(v, default) ==
    CASE v = "0" -> 0
      [] v = "1" -> 1
      [] v = "2" -> 2
      [] OTHER -> default

\* ------------------------------------------------------------------- state
VARIABLES
    pc,         \* position of main: read, parse, get_ocr, invoke, recreate,
                \* reinvoke, variants, save, write, except, done, crashed
    ok,         \* RapidOCRWorker._ok
    env,        \* the two environment variables read by recognize
    cache,      \* RapidOCRWorker._ocr_by_profile: profile key -> handle
    nextHandle, \* identity of the next engine object constructed
    nIn,        \* lines read so far, blank ones included
    nRead,      \* non-blank lines read so far
    line,       \* the line being handled
    loc,        \* locals of main / recognize / _run_ocr_once
    stdout,     \* for each response line written, the ordinal of the
                \* request it was computed from
    resp,       \* the response line written for the line being handled
    hist,       \* history of engine use (observation only)
    faults,     \* failures of the environment so far
    arg,        \* the arguments of a function called on its own
    res         \* what the successive calls of that function returned

vars == <<pc, ok, env, cache, nextHandle, nIn, nRead, line, loc, stdout,
          resp, hist, faults, arg, res>>

\* the variables of a function called on its own; the worker loop never
\* touches them
calls == <<arg, res>>
NoCall == [fn |-> "none"]

CacheKeys == {"default", "pdf"}
NoResult == [score |-> -1]
NoResp == [none |-> TRUE]

\* locals at the top of one loop iteration (req_id = "")
FreshLoc ==
    [seq |-> 0, req_id |-> "", image_path |-> "", profile |-> "",
     debug |-> FALSE,
     multipass |-> 0, rotate180 |-> FALSE,
     img |-> "", name |-> "", ocr |-> 0, backend_errors |-> <<>>,
     best |-> NoResult, best_variant |-> "", variants |-> <<>>,
     variants_debug |-> <<>>, td |-> FALSE,
     payload |-> NoResp, exc |-> <<>>,
     \* observation only, per request: engine invocations, constructor
     \* runs, sessions popped, temporary directories made, the candidates
     \* whose run failed once and succeeded on the rebuilt session, and
     \* the cache and the failure count when the line was read
     invokes |-> 0, ctors |-> 0, pops |-> 0, tds |-> 0, recovered |-> {},
     cache0 |-> <<>>, faults0 |-> 0,
     \* observation only: the profile of the request handled just before,
     \* when that request ended in the second failure of a run ("": it did
     \* not)
     prevFailed |-> "",
     \* observation only, per request: the names of the candidates in the
     \* order their results were computed, the highest score among the
     \* candidates computed before the current best and among those
     \* computed after it (-1: none), the variants whose save failed,
     \* whether the rendering raised, and the variants build_variants
     \* returned
     cands |-> <<>>, hiBefore |-> -1, hiAfter |-> -1,
     skipped |-> {}, renderFailed |-> FALSE, built |-> <<>>,
     \* observation only, per _run_ocr_once: invocations, constructor runs
     \* and pops after the first failure, the message of the first and of
     \* the second failure, and how the run ended
     runInvokes |-> 0, runCtors |-> 0, runPops |-> 0, runFirst |-> <<>>,
     runSecond |-> <<>>, runStatus |-> "none"]

FreshHist ==
    [invokeFailed |-> FALSE,
     ctorRuns |-> [p \in CacheKeys |-> 0],
     ctorOks |-> [p \in CacheKeys |-> 0],
     used |-> [p \in CacheKeys |-> {}]]

\* ---------------------------------------------------------------- messages
\* One message: a tag and what the formatted text interpolates (the handle
\* of the engine object that raised, or a string of the request).
\* A formatted text is the sequence of its literal parts.
Msg(tag, h, s) == [tag |-> tag, h |-> h, s |-> s]
\* f"{prefix}{e}"
Prefixed(prefix, e) == [e EXCEPT !.tag = <<prefix>> \o @]
\* str(e) of the exception an engine object raises when it is invoked
InferError(h) == Msg(<<"inference failed">>, h, "")
\* str(e) of the exception the engine constructor raises
CtorError(p) == Msg(<<"engine construction failed">>, 0, p)

\* ----------------------------------------------------------- session cache
EmptyCache == [k \in {} |-> 0]
CachePut(c, k, h) == [x \in (DOMAIN c) \cup {k} |-> IF x = k THEN h ELSE c[x]]
\* (variant) the session stays in the cache
CachePopKeeps(c, k) == c
\* dict.pop(k, None)
CachePop(c, k) == [x \in (DOMAIN c) \ {k} |-> c[x]]

\* (variant) an unknown profile is kept as it is
NormProfileKeep(p) == StripLower(IF p = "" THEN "default" ELSE p)
\* the profile normalisation of _get_ocr and of recognize
NormProfile(p) ==
    LET q == StripLower(IF p = "" THEN "default" ELSE p)
    IN  IF q \in {"default", "pdf"} THEN q ELSE "default"

\* (variant) _get_ocr forgets to store the session it built
GetOcrCacheNoStore(c, profile, fresh) == c
\* _get_ocr(profile) when the constructor (if it runs) returns: the handle
\* returned and the cache afterwards
GetOcrHandle(c, profile, fresh) ==
    LET p == NormProfile(profile)
    IN  IF p \in DOMAIN c THEN c[p] ELSE fresh
GetOcrCache(c, profile, fresh) ==
    LET p == NormProfile(profile)
    IN  IF p \in DOMAIN c THEN c ELSE CachePut(c, p, fresh)
\* _get_ocr(profile) runs the constructor
GetOcrConstructs(c, profile) == NormProfile(profile) \notin DOMAIN c

\* history after one constructor run for profile p
NoteCtor(h, profile, succeeded) ==
    LET p == NormProfile(profile)
    IN  [h EXCEPT !.ctorRuns[p] = @ + 1,
                  !.ctorOks[p] = IF succeeded THEN @ + 1 ELSE @]

\* -------------------------------------------------------------------- Init
\* RapidOCRWorker.__init__: the import of the engine succeeds or not; with
\* warmup the sessions of "default" and then "pdf" are built inside one
\* try, so a failure of the first skips the second.
Warmups ==
    { [cache |-> EmptyCache, next |-> 1, runs |-> <<0, 0>>, oks |-> <<0, 0>>],
      [cache |-> EmptyCache, next |-> 1, runs |-> <<1, 0>>, oks |-> <<0, 0>>],
      [cache |-> CachePut(EmptyCache, "default", 1), next |-> 2,
       runs |-> <<1, 1>>, oks |-> <<1, 0>>],
      [cache |-> CachePut(CachePut(EmptyCache, "default", 1), "pdf", 2),
       next |-> 3, runs |-> <<1, 1>>, oks |-> <<1, 1>>] }

Init ==
    /\ pc = "read"
    /\ ok \in BOOLEAN
    /\ env \in [multipass : EnvMultipass, rotate180 : EnvRotate]
    /\ \E w \in Warmups :
          /\ (~ok => w.runs = <<0, 0>>)
          /\ cache = w.cache
          /\ nextHandle = w.next
          /\ hist = [FreshHist EXCEPT
                        !.ctorRuns = [p \in CacheKeys |->
                                        IF p = "default" THEN w.runs[1] ELSE w.runs[2]],
                        !.ctorOks = [p \in CacheKeys |->
                                        IF p = "default" THEN w.oks[1] ELSE w.oks[2]]]
          /\ faults = (w.runs[1] - w.oks[1]) + (w.runs[2] - w.oks[2])
    /\ nIn = 0
    /\ nRead = 0
    /\ line = NoLine
    /\ loc = FreshLoc
    /\ stdout = <<>>
    /\ resp = NoResp
    /\ arg = NoCall
    /\ res = <<>>

\* ---------------------------------------------------------------- main loop
\* sys.stdin.readline() returns "": main returns
ReadEOF ==
    /\ pc = "read"
    /\ pc' = "done"
    /\ UNCHANGED <<faults, ok, env, cache, nextHandle, nIn, nRead, line, loc, stdout,
                   resp, hist>>
    /\ UNCHANGED calls

\* (variant) a blank line is not skipped and goes through the try block
ReadBlankNoSkip ==
    /\ pc = "read"
    /\ nIn < MaxInput
    /\ nIn' = nIn + 1
    /\ line' = [kind |-> "garbage"]
    /\ loc' = FreshLoc
    /\ resp' = NoResp
    /\ pc' = "parse"
    /\ UNCHANGED <<faults, ok, env, cache, nextHandle, nRead, stdout, hist>>
    /\ UNCHANGED calls

\* a line that is empty after strip(): continue
ReadBlank ==
    /\ pc = "read"
    /\ nIn < MaxInput
    /\ nIn' = nIn + 1
    /\ UNCHANGED <<faults, pc, ok, env, cache, nextHandle, nRead, line, loc, stdout,
                   resp, hist>>
    /\ UNCHANGED calls

\* (variant) req_id keeps the value of the previous iteration
ReadRequestStaleId ==
    /\ pc = "read"
    /\ nIn < MaxInput
    /\ \E l \in Lines : line' = l
    /\ nIn' = nIn + 1
    /\ nRead' = nRead + 1
    /\ loc' = [FreshLoc EXCEPT !.seq = nRead + 1, !.cache0 = cache,
                                !.faults0 = faults, !.req_id = loc.req_id,
                                !.prevFailed = IF loc.runStatus = "failed_twice"
                                               THEN loc.profile ELSE ""]
    /\ resp' = NoResp
    /\ pc' = "parse"
    /\ UNCHANGED <<faults, ok, env, cache, nextHandle, stdout, hist>>
    /\ UNCHANGED calls

\* a non-blank line: req_id = "" and the try block is entered
ReadRequest ==
    /\ pc = "read"
    /\ nIn < MaxInput
    /\ \E l \in Lines : line' = l
    /\ nIn' = nIn + 1
    /\ nRead' = nRead + 1
    /\ loc' = [FreshLoc EXCEPT !.seq = nRead + 1, !.cache0 = cache,
                                !.faults0 = faults,
                                !.prevFailed = IF loc.runStatus = "failed_twice"
                                               THEN loc.profile ELSE ""]
    /\ resp' = NoResp
    /\ pc' = "parse"
    /\ UNCHANGED <<faults, ok, env, cache, nextHandle, stdout, hist>>
    /\ UNCHANGED calls

\* --------------------------------------------------------------- responses
\* write_line raises UnicodeEncodeError when the text holds a lone
\* surrogate; of the strings of a response only the id can hold one here.
CanWrite(obj) == Encodable(obj.id)

\* (variant) the ping answer carries a field of the OCR answer
PingResponseExtra(id) == [id |-> id, success |-> TRUE, engine |-> "rapidocr"]
PingResponse(id) == [id |-> id, success |-> TRUE]
\* the dict recognize returns on its two early exits, after out["id"] = req_id
RejectResponse(id, m) == [success |-> FALSE, error |-> <<m>>, id |-> id]
\* (variant) the except clause reports success
ExceptionResponseOk(id, e) ==
    [id |-> id, success |-> TRUE, error |-> e, traceback |-> TRUE]
\* the dict of the except clause of main; error is str(e)
ExceptionResponse(id, e) ==
    [id |-> id, success |-> FALSE, error |-> e, traceback |-> TRUE]

Max(a, b) == IF a >= b THEN a ELSE b

\* score_lines(lines) of a result of n lines: results are told apart by
\* their line count only, and more lines score higher
score_lines(out) == out.n

\* _build_result: the fields recognize reads back
BuildResult(out, backend_errors) ==
    [out |-> out, line_count |-> out.n, score |-> score_lines(out),
     backend |-> "rapidocr", backend_errors |-> backend_errors]

\* the payload of recognize (lines 492-506) with out["id"] = req_id
SuccessResponse(l) ==
    IF l.debug
    THEN [success |-> TRUE, text |-> l.best.out, lines |-> l.best.out,
          line_count |-> l.best.line_count, engine |-> "rapidocr",
          profile |-> l.profile, variant |-> l.best_variant,
          backend |-> l.best.backend,
          backend_errors |-> l.best.backend_errors, params |-> "rapidocr",
          variants |-> l.variants_debug, id |-> l.req_id]
    ELSE [success |-> TRUE, text |-> l.best.out, lines |-> l.best.out,
          line_count |-> l.best.line_count, engine |-> "rapidocr",
          profile |-> l.profile, variant |-> l.best_variant,
          backend |-> l.best.backend,
          backend_errors |-> l.best.backend_errors, params |-> "rapidocr",
          id |-> l.req_id]

\* (variant) the temporary directory outlives the exception
RaiseLeak(l, e) == [l EXCEPT !.exc = e]
\* an exception leaves recognize: the with block removes the temporary
\* directory, and main's except clause gets str(e)
Raise(l, e) == [l EXCEPT !.td = FALSE, !.exc = e]

\* lines 524-536 of main: parse the line, read id and type, answer a ping,
\* read the remaining fields
Parse ==
    /\ pc = "parse"
    /\ \/ /\ line.kind = "garbage"
          /\ loc' = Raise(loc, <<Msg(<<"Expecting value">>, 0, "")>>)
          /\ pc' = "except"
       \/ /\ line.kind = "nonobject"
          /\ loc' = Raise(loc, <<Msg(<<"object has no attribute 'get'">>, 0, "")>>)
          /\ pc' = "except"
       \/ /\ line.kind = "object"
          /\ LET req_id == StrOr(line.id, "")
                 req_type == StripLower(StrOr(line.type, "ocr"))
             IN  IF req_type = "ping"
                 THEN /\ loc' = [loc EXCEPT !.req_id = req_id,
                                            !.payload = PingResponse(req_id)]
                      /\ pc' = "write"
                 ELSE /\ loc' = [loc EXCEPT
                                   !.req_id = req_id,
                                   !.image_path = StrOr(line.image_path, ""),
                                   !.profile = StrOr(line.profile, "default"),
                                   !.debug = Truthy(line.debug)]
                      /\ pc' = "recognize"
    /\ UNCHANGED <<faults, ok, env, cache, nextHandle, nIn, nRead, line, stdout, resp,
                   hist>>
    /\ UNCHANGED calls

\* recognize, lines 442-455: the two early exits, the profile and the
\* tuning values, up to the call of _run_ocr_once on the original image
Recognize ==
    /\ pc = "recognize"
    /\ IF ~ok
       THEN /\ loc' = [loc EXCEPT !.payload =
                          RejectResponse(loc.req_id,
                              Msg(<<"RapidOCR worker not available: ">>, 0, ""))]
            /\ pc' = "write"
       ELSE IF loc.image_path = "" \/ ~PathExists(loc.image_path)
       THEN /\ loc' = [loc EXCEPT !.payload =
                          RejectResponse(loc.req_id,
                              Msg(<<"Image file not found: ">>, 0, loc.image_path))]
            /\ pc' = "write"
       ELSE LET profile == NormProfile(loc.profile)
            IN  /\ loc' = [loc EXCEPT
                             !.profile = profile,
                             !.multipass = safe_int(env.multipass,
                                              IF profile = "pdf" THEN 1 ELSE 0),
                             !.rotate180 = truthy(env.rotate180) \/ profile = "pdf",
                             !.img = loc.image_path,
                             !.name = "original"]
                /\ pc' = "get_ocr"
    /\ UNCHANGED <<faults, ok, env, cache, nextHandle, nIn, nRead, line, stdout, resp,
                   hist>>
    /\ UNCHANGED calls

\* write_line(out) inside the try block (lines 531 and 539)
WriteResponse ==
    /\ pc = "write"
    /\ IF CanWrite(loc.payload)
       THEN /\ stdout' = Append(stdout, loc.seq)
            /\ resp' = loc.payload
            /\ pc' = "read"
            /\ loc' = loc
       ELSE /\ loc' = Raise(loc, <<Msg(<<"codec can't encode character">>, 0, "")>>)
            /\ pc' = "except"
            /\ UNCHANGED <<stdout, resp>>
    /\ UNCHANGED <<ok, env, cache, nextHandle, nIn, nRead, line, hist, faults>>
    /\ UNCHANGED calls

\* the except clause of main (lines 540-542); an exception of its own
\* write_line is caught by nothing
HandleException ==
    /\ pc = "except"
    /\ LET out == ExceptionResponse(loc.req_id, loc.exc)
       IN  IF CanWrite(out)
           THEN /\ stdout' = Append(stdout, loc.seq)
                /\ resp' = out
                /\ pc' = "read"
           ELSE /\ pc' = "crashed"
                /\ UNCHANGED <<stdout, resp>>
    /\ UNCHANGED <<ok, env, cache, nextHandle, nIn, nRead, line, loc, hist,
                   faults>>
    /\ UNCHANGED calls

\* ------------------------------------------------------------ the variants
\* build_variants(pil_img, profile, multipass, rotate180): the names of the
\* variants, pil_img given by whether it is an image at all
build_variants(hasImage, profile, multipass, rotate180) ==
    IF ~hasImage THEN <<>>
    ELSE IF profile = "pdf"
         THEN <<"enhance2x">>
              \o (IF multipass >= 2 THEN <<"gray2x">> ELSE <<>>)
              \o (IF rotate180 THEN <<"enhance2x_rot180">> ELSE <<>>)
         ELSE <<>>

\* (variant) the image is loaded whatever the multipass level
LoadedImageAlways(isImage, multipass) == isImage
\* line 464: pil_img = load_pil_image(image_path) if multipass > 0 else
\* None; load_pil_image returns None for what is not an image
LoadedImage(isImage, multipass) == multipass > 0 /\ isImage
\* lines 464-465 of recognize: the variants of one request
RecognizeVariants(isImage, profile, multipass, rotate180) ==
    build_variants(LoadedImage(isImage, multipass), profile, multipass,
                   rotate180)

\* (variant) ocr_cli.py renders the grey variant from level 1 on
cli_build_variants_gray1(hasImage, profile, multipass, rotate180) ==
    IF ~hasImage \/ multipass <= 0 THEN <<>>
    ELSE IF profile = "pdf"
         THEN <<"enhance2x">>
              \o (IF multipass >= 1 THEN <<"gray2x">> ELSE <<>>)
              \o (IF rotate180 THEN <<"enhance2x_rot180">> ELSE <<>>)
         ELSE <<>>
\* build_variants of ocr_cli.py: as the worker's, after its own test of
\* the multipass level
cli_build_variants(hasImage, profile, multipass, rotate180) ==
    IF ~hasImage \/ multipass <= 0 THEN <<>>
    ELSE IF profile = "pdf"
         THEN <<"enhance2x">>
              \o (IF multipass >= 2 THEN <<"gray2x">> ELSE <<>>)
              \o (IF rotate180 THEN <<"enhance2x_rot180">> ELSE <<>>)
         ELSE <<>>

\* the entry appended to variants_debug for one candidate
DebugEntry(name, r) ==
    [variant |-> name, score |-> r.score, lines |-> r.line_count,
     chars |-> r.line_count]

\* leaving the for loop and the with block: the payload is built
Finish(l) ==
    LET m == [l EXCEPT !.td = FALSE]
    IN  [m EXCEPT !.payload = SuccessResponse(m)]

\* (variant) a later candidate of equal score replaces the best
BetterOrEqual(r, best) == r.score >= best.score
\* r["score"] > best["score"]
Better(r, best) == r.score > best.score

\* what recognize does with the result r of _run_ocr_once: lines 456-462
\* for the original image, lines 476-490 for a variant
AfterRun(l, r) ==
    LET dbg == IF l.debug THEN Append(l.variants_debug, DebugEntry(l.name, r))
               ELSE l.variants_debug
        seen == Append(l.cands, l.name)
    IN  IF l.name = "original"
        THEN [l EXCEPT !.best = r, !.best_variant = "original",
                       !.variants_debug = dbg, !.cands = seen]
        ELSE LET m == IF Better(r, l.best)
                      THEN [l EXCEPT !.best = r, !.best_variant = l.name,
                                     !.variants_debug = dbg, !.cands = seen,
                                     !.hiBefore = Max(Max(@, l.hiAfter),
                                                      l.best.score),
                                     !.hiAfter = -1]
                      ELSE [l EXCEPT !.variants_debug = dbg, !.cands = seen,
                                     !.hiAfter = Max(@, r.score)]
             IN  IF m.variants = <<>> THEN Finish(m) ELSE m
AfterRunPc(l) ==
    IF l.name = "original" THEN "variants"
    ELSE IF l.variants = <<>> THEN "write" ELSE "save"

\* ------------------------------------------------------------ _run_ocr_once
\* the outcomes of one call into the environment: it returns (TRUE), or it
\* raises while the run has failures left
Outcomes == IF faults < MaxFaults THEN BOOLEAN ELSE {TRUE}
\* beyond that count, the request that follows a request of the same
\* profile that failed twice may meet one more failure, at its first
\* invocation
Relapse(l) ==
    l.prevFailed = l.profile /\ l.name = "original" /\ faults = l.faults0

\* observation: one invocation of the handle l.ocr for the profile
NoteInvoke(h, l, failed) ==
    [h EXCEPT !.used[l.profile] = @ \cup {l.ocr},
              !.invokeFailed = @ \/ failed]

\* (variant) only the last message is raised
RunErrorLast(backend_errors) == <<backend_errors[Len(backend_errors)]>>
\* RuntimeError("; ".join(backend_errors)): the message is the messages
\* of backend_errors in order
RunError(backend_errors) == backend_errors

\* line 381: ocr = self._get_ocr(profile); the constructor runs when the
\* profile has no cached session, and its exception leaves recognize
RunGetOcr ==
    /\ pc = "get_ocr"
    /\ LET l == [loc EXCEPT !.backend_errors = <<>>, !.runInvokes = 0,
                            !.runCtors = 0, !.runPops = 0, !.runFirst = <<>>,
                            !.runSecond = <<>>, !.runStatus = "running"]
       IN  IF GetOcrConstructs(cache, l.profile)
           THEN \E succeeded \in Outcomes :
                  /\ hist' = NoteCtor(hist, l.profile, succeeded)
                  /\ faults' = IF succeeded THEN faults ELSE faults + 1
                  /\ IF succeeded
                     THEN /\ cache' = GetOcrCache(cache, l.profile, nextHandle)
                          /\ nextHandle' = nextHandle + 1
                          /\ loc' = [l EXCEPT
                                !.ocr = GetOcrHandle(cache, l.profile, nextHandle),
                                !.ctors = @ + 1]
                          /\ pc' = "invoke"
                     ELSE /\ loc' = Raise([l EXCEPT !.ctors = @ + 1,
                                                    !.runStatus = "no_session"],
                                          <<CtorError(NormProfile(l.profile))>>)
                          /\ pc' = "except"
                          /\ UNCHANGED <<cache, nextHandle>>
           ELSE /\ loc' = [l EXCEPT !.ocr = GetOcrHandle(cache, l.profile, nextHandle)]
                /\ pc' = "invoke"
                /\ UNCHANGED <<cache, nextHandle, hist, faults>>
    /\ UNCHANGED <<ok, env, nIn, nRead, line, stdout, resp>>
    /\ UNCHANGED calls

\* lines 390-395: the first invocation returns, or raises and leaves
\* "run_failed: ..." in backend_errors
Invoke ==
    /\ pc = "invoke"
    /\ LET l == [loc EXCEPT !.invokes = @ + 1, !.runInvokes = @ + 1]
       IN  \/ \E n \in 0..MaxLines :
                /\ loc' = AfterRun([l EXCEPT !.runStatus = "returned"],
                                   BuildResult([img |-> l.img, n |-> n],
                                               l.backend_errors))
                /\ pc' = AfterRunPc(l)
                /\ hist' = NoteInvoke(hist, l, FALSE)
                /\ faults' = faults
           \/ /\ FALSE \in Outcomes \/ Relapse(l)
              /\ faults' = faults + 1
              /\ loc' = [l EXCEPT
                           !.backend_errors =
                               Append(@, Prefixed("run_failed: ", InferError(l.ocr))),
                           !.runFirst = <<InferError(l.ocr)>>]
              /\ pc' = "recreate"
              /\ hist' = NoteInvoke(hist, l, TRUE)
    /\ UNCHANGED <<ok, env, cache, nextHandle, nIn, nRead, line, stdout, resp>>
    /\ UNCHANGED calls

\* lines 397-399 and 404-406: the session of the profile is popped and
\* _get_ocr builds a new one; if the constructor raises, RuntimeError
\* carries the joined backend_errors
Recreate ==
    /\ pc = "recreate"
    /\ LET popped == CachePop(cache, loc.profile)
           l == [loc EXCEPT !.pops = @ + 1, !.runPops = @ + 1,
                            !.ctors = @ + 1, !.runCtors = @ + 1]
       IN  \E succeeded \in Outcomes :
             /\ hist' = NoteCtor(hist, l.profile, succeeded)
             /\ faults' = IF succeeded THEN faults ELSE faults + 1
             /\ IF succeeded
                THEN /\ cache' = GetOcrCache(popped, l.profile, nextHandle)
                     /\ nextHandle' = nextHandle + 1
                     /\ loc' = [l EXCEPT
                           !.ocr = GetOcrHandle(popped, l.profile, nextHandle)]
                     /\ pc' = "reinvoke"
                ELSE /\ cache' = popped
                     /\ nextHandle' = nextHandle
                     /\ LET e2 == CtorError(NormProfile(l.profile))
                            errs == Append(l.backend_errors,
                                           Prefixed("recreate_failed: ", e2))
                        IN  loc' = Raise([l EXCEPT !.backend_errors = errs,
                                                   !.runSecond = <<e2>>,
                                                   !.runStatus = "failed_twice"],
                                         RunError(errs))
                     /\ pc' = "except"
    /\ UNCHANGED <<ok, env, nIn, nRead, line, stdout, resp>>
    /\ UNCHANGED calls

\* lines 400-406: the invocation on the rebuilt session returns
\* ("recreated_session_ok") or raises (RuntimeError of the joined messages)
Reinvoke ==
    /\ pc = "reinvoke"
    /\ LET l == [loc EXCEPT !.invokes = @ + 1, !.runInvokes = @ + 1]
       IN  \/ \E n \in 0..MaxLines :
                LET errs == Append(l.backend_errors,
                                   Msg(<<"recreated_session_ok">>, 0, ""))
                    m == [l EXCEPT !.backend_errors = errs,
                                   !.recovered = @ \cup {l.name},
                                   !.runStatus = "returned"]
                IN  /\ loc' = AfterRun(m, BuildResult([img |-> l.img, n |-> n], errs))
                    /\ pc' = AfterRunPc(m)
                    /\ hist' = NoteInvoke(hist, l, FALSE)
                    /\ faults' = faults
           \/ LET e2 == InferError(l.ocr)
                  errs == Append(l.backend_errors,
                                 Prefixed("recreate_failed: ", e2))
              IN  /\ FALSE \in Outcomes
                  /\ faults' = faults + 1
                  /\ loc' = Raise([l EXCEPT !.backend_errors = errs,
                                            !.runSecond = <<e2>>,
                                            !.runStatus = "failed_twice"],
                                  RunError(errs))
                  /\ pc' = "except"
                  /\ hist' = NoteInvoke(hist, l, TRUE)
    /\ UNCHANGED <<ok, env, cache, nextHandle, nIn, nRead, line, stdout, resp>>
    /\ UNCHANGED calls

\* ------------------------------------------------- recognize, the variants
\* lines 464-467: the image is loaded when multipass > 0 and the variants
\* are rendered (an exception of the rendering leaves recognize); with
\* variants the temporary directory is created
BuildVariants ==
    /\ pc = "variants"
    /\ LET hasImage == LoadedImage(IsImage(loc.image_path), loc.multipass)
           variants == RecognizeVariants(IsImage(loc.image_path), loc.profile,
                                         loc.multipass, loc.rotate180)
       IN  \/ /\ hasImage
              /\ FALSE \in Outcomes
              /\ faults' = faults + 1
              /\ loc' = Raise([loc EXCEPT !.renderFailed = TRUE],
                              <<Msg(<<"cannot render image">>, 0, "")>>)
              /\ pc' = "except"
           \/ /\ variants = <<>>
              /\ faults' = faults
              /\ loc' = Finish(loc)
              /\ pc' = "write"
           \/ /\ variants # <<>>
              /\ faults' = faults
              /\ loc' = [loc EXCEPT !.variants = variants, !.td = TRUE,
                                    !.tds = @ + 1, !.built = variants]
              /\ pc' = "save"
    /\ UNCHANGED <<ok, env, cache, nextHandle, nIn, nRead, line, stdout, resp,
                   hist>>
    /\ UNCHANGED calls

\* lines 468-475: the next variant is saved into the temporary directory;
\* a variant that cannot be saved is skipped, a saved one is run
SaveVariant ==
    /\ pc = "save"
    /\ LET name == Head(loc.variants)
           l == [loc EXCEPT !.variants = Tail(@)]
       IN  \/ /\ FALSE \in Outcomes
              /\ faults' = faults + 1
              /\ loc' = LET m == [l EXCEPT !.skipped = @ \cup {name}]
                        IN  IF m.variants = <<>> THEN Finish(m) ELSE m
              /\ pc' = IF l.variants = <<>> THEN "write" ELSE "save"
           \/ /\ faults' = faults
              /\ loc' = [l EXCEPT !.name = name, !.img = name]
              /\ pc' = "get_ocr"
    /\ UNCHANGED <<ok, env, cache, nextHandle, nIn, nRead, line, stdout, resp,
                   hist>>
    /\ UNCHANGED calls

\* ---------------------------------------------------------- specification
Next ==
    \/ ReadEOF
    \/ ReadBlank
    \/ ReadRequest
    \/ Parse
    \/ Recognize
    \/ RunGetOcr
    \/ Invoke
    \/ Recreate
    \/ Reinvoke
    \/ BuildVariants
    \/ SaveVariant
    \/ WriteResponse
    \/ HandleException

Spec == Init /\ [][Next]_vars

\* ============================================ functions called on their own
\* The helper functions of the three scripts, each applied to arguments
\* drawn from bounded sets: Init picks the function and its arguments, the
\* call action stores what it returns.
MaxLevel == 3

\* the variables of the worker loop, at rest
WorkerIdle ==
    /\ ok = FALSE
    /\ env = [multipass |-> "None", rotate180 |-> "None"]
    /\ cache = EmptyCache
    /\ nextHandle = 1
    /\ nIn = 0
    /\ nRead = 0
    /\ line = NoLine
    /\ loc = FreshLoc
    /\ stdout = <<>>
    /\ resp = NoResp
    /\ hist = FreshHist
    /\ faults = 0
idle == <<ok, env, cache, nextHandle, nIn, nRead, line, loc, stdout, resp,
          hist, faults>>

\* build_variants of the worker, build_variants of ocr_cli.py, and the
\* worker's as recognize calls it
VariantArgs ==
    [fn : {"build_variants"}, via : {"worker", "cli", "recognize"},
     image : BOOLEAN, profile : {"default", "pdf", "a4"},
     multipass : (-1)..MaxLevel, rotate180 : BOOLEAN]

CallBuildVariants ==
    /\ pc = "call"
    /\ arg.fn = "build_variants"
    /\ res' = <<CASE arg.via = "worker" ->
                        build_variants(arg.image, arg.profile, arg.multipass,
                                       arg.rotate180)
                   [] arg.via = "cli" ->
                        cli_build_variants(arg.image, arg.profile,
                                           arg.multipass, arg.rotate180)
                   [] arg.via = "recognize" ->
                        RecognizeVariants(arg.image, arg.profile,
                                          arg.multipass, arg.rotate180)>>
    /\ pc' = "returned"
    /\ UNCHANGED <<arg, idle>>

\* ------------------------------------------------------- fragments
\* A fragment is a line dict of _build_result: its text, a sequence of
\* characters (one-character strings, a character outside ASCII written
\* as its code point), and the value of line.get("box") or [], a sequence of
\* points (a missing box and an empty one are both <<>>).
MaxFrags == 3

Quad(l, t, r, b) == <<<<l, t>>, <<r, t>>, <<r, b>>, <<l, b>>>>
\* one line of _build_result: its text, its box and its confidence in
\* hundredths
Frag(text, box, confidence) ==
    [text |-> text, box |-> box, confidence |-> confidence]

\* two rows of a receipt: a label at the left, fields to its right, a
\* tall field reaching into the second row, a field further down (too far
\* below both labels to be their value), fields with no box or with a
\* point that has no y
Fragments ==
    { Frag(<<"U+5546", "U+5BB6">>, Quad(0, 0, 40, 10), 99),
      Frag(<<"1">>, Quad(50, 0, 90, 10), 95),
      Frag(<<"2">>, Quad(100, 2, 140, 12), 90),
      Frag(<<"U+5546", "U+54C1">>, Quad(0, 20, 40, 30), 85),
      Frag(<<" ">>, Quad(50, 0, 90, 10), 80),
      Frag(<<"3">>, Quad(50, 8, 90, 40), 75),
      Frag(<<"4">>, <<>>, 70),
      Frag(<<" ", "U+5546", "U+5BB6">>, <<<<7>>>>, 65),
      Frag(<<" ", "U+5546", "U+54C1">>, Quad(50, 0, 90, 10), 60),
      Frag(<<"5">>, Quad(50, 47, 90, 57), 55) }

\* the lists of at most MaxFrags distinct fragments
FragLists ==
    UNION { { q \in [1..n -> Fragments] :
                \A i, j \in 1..n : i # j => q[i] # q[j] } : n \in 0..MaxFrags }

Abs(x) == IF x < 0 THEN -x ELSE x
MinOf(S) == CHOOSE x \in S : \A y \in S : x <= y
MaxOf(S) == CHOOSE x \in S : \A y \in S : x >= y
Range(q) == {q[i] : i \in 1..Len(q)}

\* a < b for two sort keys, tuples of one or two numbers
KeyLess(a, b) == a[1] < b[1] \/ (a[1] = b[1] /\ Len(a) > 1 /\ a[2] < b[2])
\* (variant) the list is left as it is
Unsorted(q, keys) == q
\* list.sort(key=...) and sorted(): a stable sort, keys[i] the key of
\* q[i]; q[j] comes before q[i] when its key is smaller, or equal and
\* j < i
Sorted(q, keys) ==
    LET n == Len(q)
        ahead(i) == {j \in 1..n : \/ KeyLess(keys[j], keys[i])
                                  \/ j < i /\ ~KeyLess(keys[i], keys[j])}
    IN  [k \in 1..n |->
            q[CHOOSE i \in 1..n : Cardinality(ahead(i)) = k - 1]]

\* the points of a box that are sequences of at least two numbers
UsablePoints(box) ==
    LET usable(pt) == Len(pt) >= 2
    IN  SelectSeq(box, usable)
HasMetrics(ln) == UsablePoints(ln.box) # <<>>

\* the entry of processed for one line (lines 109-123)
Metrics(ln) ==
    LET pts == UsablePoints(ln.box)
        xs == {pts[i][1] : i \in 1..Len(pts)}
        ys == {pts[i][2] : i \in 1..Len(pts)}
    IN  [line |-> ln, minx |-> MinOf(xs), maxx |-> MaxOf(xs),
         miny |-> MinOf(ys), maxy |-> MaxOf(ys),
         height |-> Max(1, MaxOf(ys) - MinOf(ys))]

\* processed: the lines with a usable box, in their order
Processed(lines) ==
    LET boxed == SelectSeq(lines, HasMetrics)
    IN  [i \in 1..Len(boxed) |-> Metrics(boxed[i])]

\* twice the median of the heights (lines 128-130)
Median2(heights) ==
    LET hs == Sorted(heights, [i \in 1..Len(heights) |-> <<heights[i]>>])
        mid == Len(hs) \div 2
    IN  IF Len(hs) % 2 = 1 THEN 2 * hs[mid + 1] ELSE hs[mid] + hs[mid + 1]

\* twenty times max(floor, median_h * tenths / 10): the worker and
\* ocr_cli.py use max(5.0, median_h * 0.6), pdf_text_cli.py uses
\* max(6.0, median_h * 0.7)
RowTol20(median2, floor, tenths) == Max(20 * floor, tenths * median2)

\* (variant) the row's bottom is that of its last fragment
RECURSIVE ClusterLastBottom(_, _, _, _, _)
ClusterLastBottom(ps, rows, current_row, current_maxy, tol20) ==
    IF ps = <<>>
    THEN IF current_row # <<>> THEN Append(rows, current_row) ELSE rows
    ELSE LET p == Head(ps)
         IN  IF current_row # <<>> /\ 20 * p.miny > 20 * current_maxy + tol20
             THEN ClusterLastBottom(Tail(ps), Append(rows, current_row),
                                    <<p>>, p.maxy, tol20)
             ELSE ClusterLastBottom(Tail(ps), rows, Append(current_row, p),
                                    p.maxy, tol20)
\* the walk over the sorted entries (worker lines 135-148, pdf_text_cli
\* lines 127-139): a new row starts when the top of p lies more than the
\* tolerance below the lowest bottom of the current row
RECURSIVE Cluster(_, _, _, _, _)
Cluster(ps, rows, current_row, current_maxy, tol20) ==
    IF ps = <<>>
    THEN IF current_row # <<>> THEN Append(rows, current_row) ELSE rows
    ELSE LET p == Head(ps)
         IN  IF current_row # <<>> /\ 20 * p.miny > 20 * current_maxy + tol20
             THEN Cluster(Tail(ps), Append(rows, current_row), <<p>>,
                          p.maxy, tol20)
             ELSE Cluster(Tail(ps), rows, Append(current_row, p),
                          IF current_row = <<>> THEN p.maxy
                          ELSE Max(current_maxy, p.maxy),
                          tol20)

\* the sort keys: (miny, minx) for the walk, minx inside a row
TopLeft(ps) == [i \in 1..Len(ps) |-> <<ps[i].miny, ps[i].minx>>]
Left(ps) == [i \in 1..Len(ps) |-> <<ps[i].minx>>]

\* the tolerance of reorder_lines_by_box, times twenty
WorkerTol20(processed) ==
    RowTol20(Median2([i \in 1..Len(processed) |-> processed[i].height]), 5, 6)

\* the rows of reorder_lines_by_box before each is sorted by minx
WorkerRows(lines) ==
    LET processed == Processed(lines)
    IN  IF processed = <<>> THEN <<>>
        ELSE Cluster(Sorted(processed, TopLeft(processed)), <<>>, <<>>, 0,
                     WorkerTol20(processed))

RECURSIVE Flatten(_)
Flatten(rows) ==
    IF rows = <<>> THEN <<>> ELSE Head(rows) \o Flatten(Tail(rows))

\* reorder_lines_by_box(lines), the same in ocr_worker.py and ocr_cli.py
reorder_lines_by_box(lines) ==
    IF lines = <<>> THEN lines
    ELSE IF Processed(lines) = <<>> THEN lines
    ELSE LET rows == WorkerRows(lines)
             ordered == Flatten([r \in 1..Len(rows) |-> Sorted(rows[r], Left(rows[r]))])
         IN  [i \in 1..Len(ordered) |-> ordered[i].line]

\* the item iter_page_spans makes of a span with the box of a fragment;
\* y0, y1 and x0 are also given under the names the walk reads them by
Span(ln) ==
    LET m == Metrics(ln)
    IN  [x0 |-> m.minx, y0 |-> m.miny, x1 |-> m.maxx, y1 |-> m.maxy,
         h |-> Max(m.maxy - m.miny, 1), t |-> ln.text,
         minx |-> m.minx, miny |-> m.miny, maxy |-> m.maxy]
\* the lists of spans: iter_page_spans keeps only spans with a bbox and
\* with text left after strip()
SpanLists ==
    { [i \in 1..Len(q) |-> Span(q[i])] :
        q \in { r \in FragLists : \A i \in 1..Len(r) :
                   HasMetrics(r[i]) /\ r[i].text # <<" ">> } }

SpanTol20(items) ==
    RowTol20(Median2([i \in 1..Len(items) |-> items[i].h]), 6, 7)

\* cluster_rows(items) of pdf_text_cli.py
cluster_rows(items) ==
    IF items = <<>> THEN <<>>
    ELSE Cluster(Sorted(items, TopLeft(items)), <<>>, <<>>, 0, SpanTol20(items))

CallReorder ==
    /\ pc = "call"
    /\ arg.fn = "reorder_lines_by_box"
    /\ res' = <<[out |-> reorder_lines_by_box(arg.lines),
                 rows |-> WorkerRows(arg.lines),
                 tol20 |-> IF Processed(arg.lines) = <<>> THEN 0
                           ELSE WorkerTol20(Processed(arg.lines))]>>
    /\ pc' = "returned"
    /\ UNCHANGED <<arg, idle>>

CallClusterRows ==
    /\ pc = "call"
    /\ arg.fn = "cluster_rows"
    /\ res' = <<[out |-> cluster_rows(arg.items),
                 rows |-> cluster_rows(arg.items),
                 tol20 |-> IF arg.items = <<>> THEN 0
                           ELSE SpanTol20(arg.items)]>>
    /\ pc' = "returned"
    /\ UNCHANGED <<arg, idle>>

\* the function is applied to the same lines in another order
CallReorderPermuted ==
    /\ pc = "returned"
    /\ arg.fn = "reorder_lines_by_box"
    /\ \E p \in Permutations(1..Len(arg.lines)) :
          LET lines == [i \in 1..Len(arg.lines) |-> arg.lines[p[i]]]
          IN  res' = Append(res, [lines |-> lines,
                                  out |-> reorder_lines_by_box(lines),
                                  rows |-> WorkerRows(lines)])
    /\ pc' = "returned_permuted"
    /\ UNCHANGED <<arg, idle>>

ReorderArgs == [fn : {"reorder_lines_by_box"}, lines : FragLists]
ClusterArgs == [fn : {"cluster_rows"}, items : SpanLists]

\* ------------------------------------------------------ label and value
\* label_set (lines 162-187)
label_set ==
    { <<"U+4EA4", "U+6613", "U+5355", "U+53F7">>,
      <<"U+4EA4", "U+6613", "U+53F7">>,
      <<"U+5546", "U+6237", "U+5355", "U+53F7">>,
      <<"U+8BA2", "U+5355", "U+53F7">>,
      <<"U+6D41", "U+6C34", "U+53F7">>,
      <<"U+8F6C", "U+8D26", "U+5355", "U+53F7">>,
      <<"U+652F", "U+4ED8", "U+65F6", "U+95F4">>,
      <<"U+4ED8", "U+6B3E", "U+65F6", "U+95F4">>,
      <<"U+521B", "U+5EFA", "U+65F6", "U+95F4">>,
      <<"U+4EA4", "U+6613", "U+65F6", "U+95F4">>,
      <<"U+8F6C", "U+8D26", "U+65F6", "U+95F4">>,
      <<"U+5546", "U+6237", "U+5168", "U+79F0">>,
      <<"U+5546", "U+5BB6">>,
      <<"U+6536", "U+6B3E", "U+65B9">>,
      <<"U+6536", "U+6B3E", "U+6237">>,
      <<"U+6536", "U+6B3E", "U+8D26", "U+6237">>,
      <<"U+4ED8", "U+6B3E", "U+65B9">>,
      <<"U+6536", "U+5355", "U+673A", "U+6784">>,
      <<"U+6E05", "U+7B97", "U+673A", "U+6784">>,
      <<"U+652F", "U+4ED8", "U+65B9", "U+5F0F">>,
      <<"U+4ED8", "U+6B3E", "U+65B9", "U+5F0F">>,
      <<"U+5F53", "U+524D", "U+72B6", "U+6001">>,
      <<"U+5546", "U+54C1">>,
      <<"U+5546", "U+54C1", "U+8BF4", "U+660E">> }

IsSpace(c) == c = " "
RECURSIVE lstrip(_)
lstrip(t) == IF t # <<>> /\ IsSpace(Head(t)) THEN lstrip(Tail(t)) ELSE t
RECURSIVE rstrip(_)
rstrip(t) ==
    IF t # <<>> /\ IsSpace(t[Len(t)]) THEN rstrip(SubSeq(t, 1, Len(t) - 1))
    ELSE t
\* norm(t): str(t or "").strip()
norm(t) == rstrip(lstrip(t))
is_label(t) == norm(t) \in label_set

\* box_of(line): None, or the sides of the box; cx2 and cy2 are twice cx
\* and cy
NoBox == [none |-> TRUE]
Sides(m) ==
    [left |-> m.minx, right |-> m.maxx, top |-> m.miny, bottom |-> m.maxy,
     cx2 |-> m.minx + m.maxx, cy2 |-> m.miny + m.maxy]
box_of(ln) == IF ~HasMetrics(ln) THEN NoBox ELSE Sides(Metrics(ln))

\* twice dy and score of lines 246-250
Dy2(label_box, value_box) == Abs(value_box.cy2 - label_box.cy2)
Score2(label_box, value_box) ==
    10 * Dy2(label_box, value_box) + 2 * (value_box.left - label_box.right)
\* (variant) the height of the value is not looked at
BesideAnyHeight(label_box, value_box) ==
    /\ value_box # NoBox
    /\ ~(value_box.left < label_box.right - 5)
\* lines 237-249, the tests on the boxes: the value has a box, does not
\* start left of the label's right side, and is at most 22 off in height
Beside(label_box, value_box) ==
    /\ value_box # NoBox
    /\ ~(value_box.left < label_box.right - 5)
    /\ ~(Dy2(label_box, value_box) > 44)
\* lines 237-249: the candidate v is not skipped
Candidate(lines, used, label_idx, v) ==
    /\ v # label_idx
    /\ v \notin used
    /\ Beside(box_of(lines[label_idx]), box_of(lines[v]))

\* (variant) of two candidates of equal score the later one is taken
RECURSIVE ScanBestLast(_, _, _, _, _, _)
ScanBestLast(lines, used, label_idx, v, best, best_score2) ==
    IF v > Len(lines) THEN best
    ELSE IF ~Candidate(lines, used, label_idx, v)
    THEN ScanBestLast(lines, used, label_idx, v + 1, best, best_score2)
    ELSE LET score2 == Score2(box_of(lines[label_idx]), box_of(lines[v]))
         IN  IF best = 0 \/ score2 <= best_score2
             THEN ScanBestLast(lines, used, label_idx, v + 1, v, score2)
             ELSE ScanBestLast(lines, used, label_idx, v + 1, best,
                               best_score2)
\* the inner loop (lines 234-253) from candidate v on: best is 0 for
\* None, and then any score is below best_score = 1e18
RECURSIVE ScanBest(_, _, _, _, _, _)
ScanBest(lines, used, label_idx, v, best, best_score2) ==
    IF v > Len(lines) THEN best
    ELSE IF ~Candidate(lines, used, label_idx, v)
    THEN ScanBest(lines, used, label_idx, v + 1, best, best_score2)
    ELSE LET score2 == Score2(box_of(lines[label_idx]), box_of(lines[v]))
         IN  IF best = 0 \/ score2 < best_score2
             THEN ScanBest(lines, used, label_idx, v + 1, v, score2)
             ELSE ScanBest(lines, used, label_idx, v + 1, best, best_score2)

\* (variant) the label keeps its text
MergedTextKeepsLabel(label_text, val) == label_text
\* f"{norm(label text)}:{val}" with the full-width colon U+FF1A
MergedText(label_text, val) == norm(label_text) \o <<"U+FF1A">> \o val

\* what the loop found for the label at i: the candidate (0: none), its
\* trimmed text and the set used at that moment
PickOf(i, best, st) ==
    [label |-> i, best |-> best,
     val |-> IF best = 0 THEN <<>> ELSE norm(st.out[best].text),
     used |-> st.used]
\* (variant) out is the caller's list itself, not a copy of it
MergeInPlace(st, pick) ==
    IF pick.best # 0 /\ pick.val # <<>>
    THEN [out |-> [st.out EXCEPT ![pick.label].text = MergedText(@, pick.val)],
          used |-> st.used \cup {pick.best},
          picks |-> Append(st.picks, pick),
          input |-> [st.out EXCEPT ![pick.label].text = MergedText(@, pick.val)]]
    ELSE [st EXCEPT !.picks = Append(@, pick)]
\* lines 254-262: the label takes the value when there is one that is
\* not blank
Merge(st, pick) ==
    IF pick.best # 0 /\ pick.val # <<>>
    THEN [out |-> [st.out EXCEPT ![pick.label].text = MergedText(@, pick.val)],
          used |-> st.used \cup {pick.best},
          picks |-> Append(st.picks, pick),
          input |-> st.input]
    ELSE [st EXCEPT !.picks = Append(@, pick)]
\* the locals before the loop: out = list(lines) is a copy of the list
\* (line 223); input is the caller's list, which nothing assigns to
Start(lines) == [out |-> lines, used |-> {}, picks |-> <<>>, input |-> lines]
\* the outer loop (lines 225-262) from line i on. picks records what was
\* found for every label the loop did not skip. Lines are told apart by
\* their position (the code uses id(): the lines are distinct objects).
RECURSIVE LayoutLoop(_, _, _)
LayoutLoop(lines, i, st) ==
    IF i > Len(lines) THEN st
    ELSE IF box_of(lines[i]) = NoBox \/ ~is_label(lines[i].text)
            \/ i \in st.used
    THEN LayoutLoop(lines, i + 1, st)
    ELSE LayoutLoop(lines, i + 1,
                    Merge(st, PickOf(i, ScanBest(lines, st.used, i, 1, 0, 0),
                                     st)))

\* the elements of q whose index is not in used, in order (line 267)
RECURSIVE Unused(_, _, _)
Unused(q, used, i) ==
    IF i > Len(q) THEN <<>>
    ELSE (IF i \in used THEN <<>> ELSE <<q[i]>>) \o Unused(q, used, i + 1)

\* apply_label_value_layout(lines, profile)
Run(lines, profile) ==
    IF profile # "default" \/ lines = <<>> THEN Start(lines)
    ELSE LayoutLoop(lines, 1, Start(lines))
Returned(lines, run) ==
    IF run.used = {} THEN lines ELSE Unused(run.out, run.used, 1)
apply_label_value_layout(lines, profile) ==
    Returned(lines, Run(lines, profile))

\* what one call leaves: the list returned and the locals of the loops
LayoutResult(lines, profile) ==
    [out |-> apply_label_value_layout(lines, profile),
     run |-> Run(lines, profile)]

LayoutArgs ==
    [fn : {"apply_label_value_layout"}, lines : FragLists,
     profile : {"default", "pdf"}]

CallLayout ==
    /\ pc = "call"
    /\ arg.fn = "apply_label_value_layout"
    /\ res' = <<LayoutResult(arg.lines, arg.profile)>>
    /\ pc' = "returned"
    /\ UNCHANGED <<arg, idle>>

\* the function is applied to what it returned
CallLayoutAgain ==
    /\ pc = "returned"
    /\ arg.fn = "apply_label_value_layout"
    /\ res' = Append(res, LayoutResult(res[1].out, arg.profile))
    /\ pc' = "returned_twice"
    /\ UNCHANGED <<arg, idle>>

\* ------------------------------------------------------------- zones
\* Normalised coordinates are counted in thousandths of the page.
\* (variant) the header reaches down to cy = 0.22 inclusive
region_for_le(cx, cy) ==
    IF cy <= 220 THEN (IF cx >= 550 THEN "header_right" ELSE "header_left")
    ELSE IF cx >= 580 /\ cy < 560 THEN "password"
    ELSE IF cy < 400 THEN "buyer"
    ELSE IF cy < 720 THEN "items"
    ELSE IF cy < 930 THEN (IF cx < 580 THEN "seller" ELSE "remarks")
    ELSE "footer"
\* region_for(cx, cy) of pdf_text_cli.py
region_for(cx, cy) ==
    IF cy < 220 THEN (IF cx >= 550 THEN "header_right" ELSE "header_left")
    ELSE IF cx >= 580 /\ cy < 560 THEN "password"
    ELSE IF cy < 400 THEN "buyer"
    ELSE IF cy < 720 THEN "items"
    ELSE IF cy < 930 THEN (IF cx < 580 THEN "seller" ELSE "remarks")
    ELSE "footer"

\* ((a + b) / 2.0) / size in thousandths; exact for the pages and spans
\* below
Centre(a, b, size) == ((a + b) * 1000) \div (2 * size)
\* lines 177-179 of build_zoned_text: the bucket a span is put into
BucketOf(it, page) ==
    region_for(Centre(it.x0, it.x1, page.w), Centre(it.y0, it.y1, page.h))

\* page.rect of a page of 500 by 500 points
Pages == {[w |-> 500, h |-> 500]}
\* spans 20 wide and 10 high whose centres lie on, just before and just
\* after every threshold, and at the edges of the page
ZoneSpans ==
    { [x0 |-> x, x1 |-> x + 20, y0 |-> y, y1 |-> y + 10, t |-> t] :
        x \in {0, 260, 265, 270, 275, 280, 285, 480},
        y \in {0, 100, 105, 110, 190, 195, 200, 270, 275, 280, 350, 355, 360,
               455, 460, 465, 490},
        t \in {<<"1">>, <<"2">>} }
ZoneArgs == [fn : {"region_for"}, span : ZoneSpans, page : Pages]

CallRegionFor ==
    /\ pc = "call"
    /\ arg.fn = "region_for"
    /\ res' = <<[out |-> BucketOf(arg.span, arg.page),
                 cx |-> Centre(arg.span.x0, arg.span.x1, arg.page.w),
                 cy |-> Centre(arg.span.y0, arg.span.y1, arg.page.h)]>>
    /\ pc' = "returned"
    /\ UNCHANGED <<arg, idle>>

\* ------------------------------------------------------------ the score
\* score_lines of ocr_worker.py and ocr_cli.py on lines that carry their
\* text and their confidence, the confidence counted in hundredths
MaxScored == 2

\* ord(ch) of the characters the model writes
ord(c) ==
    CASE c = " " -> 32
      [] c = "1" -> 49
      [] c = "2" -> 50
      [] c = "3" -> 51
      [] c = "4" -> 52
      [] c = "5" -> 53
      [] c = "a" -> 97
      [] c = "U+5546" -> 21830
      [] c = "U+5BB6" -> 23478
      [] c = "U+54C1" -> 21697
      [] c = "U+FF1A" -> 65306
\* 0x4E00 <= o <= 0x9FFF
IsCjk(c) == 19968 <= ord(c) /\ ord(c) <= 40959
\* "0" <= ch <= "9" for a character that is not CJK
IsDigit(c) == ~IsCjk(c) /\ 48 <= ord(c) /\ ord(c) <= 57

RECURSIVE SumOver(_, _)
SumOver(q, i) == IF i > Len(q) THEN 0 ELSE q[i] + SumOver(q, i + 1)
CountIn(t, cjkOnly) ==
    Cardinality({i \in 1..Len(t) : IF cjkOnly THEN IsCjk(t[i]) ELSE IsDigit(t[i])})

\* twenty times content: cjk * 2.0 + digits * 1.2 + the rest * 0.25
Content20(total_len, cjk, digits) ==
    40 * cjk + 24 * digits + 5 * Max(total_len - cjk - digits, 0)
\* the score as a fraction: (content + 10 * len(lines)) * (0.25 + avg_conf)
\* is ScoreNum / ScoreDen, and 0 / 1 for the empty list
ScoreNum(lines) ==
    IF lines = <<>> THEN 0
    ELSE (Content20(SumOver([i \in 1..Len(lines) |-> Len(lines[i].text)], 1),
                    SumOver([i \in 1..Len(lines) |-> CountIn(lines[i].text, TRUE)], 1),
                    SumOver([i \in 1..Len(lines) |-> CountIn(lines[i].text, FALSE)], 1))
            + 200 * Len(lines))
         * (25 * Max(Len(lines), 1)
            + SumOver([i \in 1..Len(lines) |-> lines[i].confidence], 1))
ScoreDen(lines) == IF lines = <<>> THEN 1 ELSE 2000 * Max(Len(lines), 1)

\* the lines scored: no text, a letter, a digit, three CJK characters,
\* each with confidence 0, 0.5 or 1
ScoredLines ==
    [text : {<<>>, <<"a">>, <<"1">>, <<"U+5546", "U+5BB6", "U+54C1">>},
     confidence : {0, 50, 100}]
ScoredLists == UNION {[1..n -> ScoredLines] : n \in 0..MaxScored}
\* a list and one more line to append to it
ScoreArgs == [fn : {"score_lines"}, lines : ScoredLists, more : ScoredLines]

\* score_lines(lines) and score_lines(lines + [more])
CallScore ==
    /\ pc = "call"
    /\ arg.fn = "score_lines"
    /\ res' = <<[num |-> ScoreNum(arg.lines), den |-> ScoreDen(arg.lines)],
                [num |-> ScoreNum(Append(arg.lines, arg.more)),
                 den |-> ScoreDen(Append(arg.lines, arg.more))]>>
    /\ pc' = "returned"
    /\ UNCHANGED <<arg, idle>>

\* -------------------------------------------- pdf_text_cli.py, the layout
MaxPages == 2

\* the word after --layout
LayoutWords == {"zones", "ordered", "raw", " RAW ", "Ordered", "columns", ""}
\* sys.argv after the path of the PDF: no --layout, --layout as the last
\* argument, --layout and a word
Argvs == {<<>>, <<"--layout">>} \cup {<<"--layout", w>> : w \in LayoutWords}

\* w.strip().lower() on the words the model passes
LayoutWord(w) ==
    CASE w = " RAW " -> "raw"
      [] w = "Ordered" -> "ordered"
      [] OTHER -> w
\* lines 68-75: sys.argv[index + 1] raises IndexError when --layout ends
\* the command line
layout_mode(argv) ==
    IF argv = <<>> \/ Len(argv) < 2 THEN "zones"
    ELSE IF LayoutWord(argv[2]) \notin {"zones", "ordered", "raw"} THEN "zones"
    ELSE LayoutWord(argv[2])

\* A text is the sequence of its pieces, "" the empty sequence.  One page:
\* what get_text("text") returns, what build_zoned_text returns ("" also
\* stands for its exception, which is swallowed), and the rows the block
\* pass appends to ordered_parts (none when it raises or finds no block).
PdfPages ==
    [raw : {<<>>, <<"raw">>}, zoned : {<<>>, <<"zoned">>},
     ordered : {<<>>, <<<<"row">>>>}]
PdfDocs == UNION {[1..n -> PdfPages] : n \in 0..MaxPages}

\* sep.join(parts)
RECURSIVE Join(_, _)
Join(parts, sep) ==
    IF parts = <<>> THEN <<>>
    ELSE IF Len(parts) = 1 THEN parts[1]
    ELSE parts[1] \o <<sep>> \o Join(Tail(parts), sep)
\* the parts that are not ""
NonEmpty(parts) ==
    LET kept(t) == t # <<>>
    IN  SelectSeq(parts, kept)

\* lines 299-301; zoned_parts is filled in zones mode only (line 226), and
\* strip() finds no blank at the ends of the zoned pages
raw_text(doc) == Join(NonEmpty([i \in 1..Len(doc) |-> doc[i].raw]), "\n")
ordered_text(doc) ==
    Join(Flatten([i \in 1..Len(doc) |-> doc[i].ordered]), "\n")
zoned_text(doc, mode) ==
    IF mode = "zones"
    THEN Join(NonEmpty([i \in 1..Len(doc) |-> doc[i].zoned]), "\n\n")
    ELSE <<>>

\* (variant) the row-ordered text is used whatever the mode
ChosenAnyOrdered(mode, zoned, ordered, raw) ==
    IF mode = "zones" /\ zoned # <<>>
    THEN [layout |-> "zones", text |-> zoned]
    ELSE IF ordered # <<>>
    THEN [layout |-> "ordered", text |-> ordered]
    ELSE [layout |-> "raw", text |-> raw]
\* lines 303-313: layout_used and final_text
Chosen(mode, zoned, ordered, raw) ==
    IF mode = "zones" /\ zoned # <<>>
    THEN [layout |-> "zones", text |-> zoned]
    ELSE IF mode \in {"zones", "ordered"} /\ ordered # <<>>
    THEN [layout |-> "ordered", text |-> ordered]
    ELSE [layout |-> "raw", text |-> raw]

\* the JSON printed (lines 315-329), and ordered_text beside it
Extracted(choice, zoned, ordered, raw) ==
    [success |-> TRUE, text |-> choice.text, raw_text |-> raw,
     zoned_text |-> zoned, layout |-> choice.layout,
     ordered |-> ordered # <<>>, ordered_text |-> ordered]
extract(argv, doc) ==
    Extracted(Chosen(layout_mode(argv), zoned_text(doc, layout_mode(argv)),
                     ordered_text(doc), raw_text(doc)),
              zoned_text(doc, layout_mode(argv)), ordered_text(doc),
              raw_text(doc))

ExtractArgs == [fn : {"pdf_text"}, argv : Argvs, doc : PdfDocs]
CallExtract ==
    /\ pc = "call"
    /\ arg.fn = "pdf_text"
    /\ res' = <<extract(arg.argv, arg.doc)>>
    /\ pc' = "returned"
    /\ UNCHANGED <<arg, idle>>

\* --------------------------------------------- ocr_cli.py, run_with_fallback
\* One run of the engine on one image: the constructor with the forced
\* parameters and its invocation, then the constructor with the defaults
\* and its invocation.  res holds the locals of the run: the engines
\* constructed, errors, the exception of either attempt, and what is
\* returned or raised.
RunArgs == [fn : {"run_with_fallback"}, path : {"/scan.png", "/enhance2x.png"}]

\* str(e) of what an attempt can raise: its constructor or its invocation
AttemptErrors(params) == {CtorError(params), InferError(IF params = "custom" THEN 1 ELSE 2)}

\* (variant) the failure of the forced parameters is not noted
CustomFailedDropped(errors, e) == errors
\* line 317: errors.append(f"custom_params_failed: {e}; params={...}")
CustomFailed(errors, e) ==
    Append(errors, [Prefixed("custom_params_failed: ", e) EXCEPT
                       !.tag = @ \o <<"; params=">>])
\* line 329: errors.append(f"default_failed: {e2}")
DefaultFailed(errors, e2) == Append(errors, Prefixed("default_failed: ", e2))

\* lines 300-316: the attempt with the forced parameters returns
\* (out, "custom", errors, param_summary) or raises into the handler
RunCustom ==
    /\ pc = "call"
    /\ arg.fn = "run_with_fallback"
    /\ \/ /\ \E n \in 0..MaxLines :
               res' = <<[tried |-> <<"custom">>, first |-> <<>>, second |-> <<>>,
                         errors |-> <<>>, raised |-> <<>>,
                         out |-> [img |-> arg.path, n |-> n],
                         backend |-> "custom", summary |-> "custom"]>>
          /\ pc' = "returned"
       \/ /\ \E e \in AttemptErrors("custom") :
               res' = <<[tried |-> <<"custom">>, first |-> <<e>>, second |-> <<>>,
                         errors |-> CustomFailed(<<>>, e), raised |-> <<>>,
                         out |-> [img |-> "", n |-> 0],
                         backend |-> "", summary |-> ""]>>
          /\ pc' = "fallback"
    /\ UNCHANGED <<arg, idle>>

\* lines 318-330: the attempt with the defaults returns
\* (out, "fallback_default", errors, fb_summary) or RuntimeError of the
\* joined errors is raised
RunDefault ==
    /\ pc = "fallback"
    /\ arg.fn = "run_with_fallback"
    /\ \/ /\ \E n \in 0..MaxLines :
               res' = <<[res[1] EXCEPT !.tried = Append(@, "default"),
                                       !.out = [img |-> arg.path, n |-> n],
                                       !.backend = "fallback_default",
                                       !.summary = "default"]>>
          /\ pc' = "returned"
       \/ /\ \E e2 \in AttemptErrors("default") :
               res' = <<[res[1] EXCEPT !.tried = Append(@, "default"),
                                       !.second = <<e2>>,
                                       !.errors = DefaultFailed(@, e2),
                                       !.raised = RunError(DefaultFailed(res[1].errors, e2))]>>
          /\ pc' = "raised"
    /\ UNCHANGED <<arg, idle>>

PureArgs ==
    VariantArgs \cup ReorderArgs \cup ClusterArgs \cup ZoneArgs
        \cup LayoutArgs \cup ScoreArgs \cup ExtractArgs \cup RunArgs

PureInit ==
    /\ pc = "call"
    /\ arg \in PureArgs
    /\ res = <<>>
    /\ WorkerIdle

PureNext ==
    \/ CallBuildVariants
    \/ CallReorder
    \/ CallReorderPermuted
    \/ CallClusterRows
    \/ CallRegionFor
    \/ CallLayout
    \/ CallLayoutAgain
    \/ CallScore
    \/ CallExtract
    \/ RunCustom
    \/ RunDefault

PureSpec == PureInit /\ [][PureNext]_vars

\* ================================================================== claims
\* a response line has been written for the line being handled
Written == "id" \in DOMAIN resp
\* main is between reading a request line and the end of its handling
Processing ==
    {"parse", "recognize", "get_ocr", "invoke", "recreate", "reinvoke",
     "variants", "save", "write", "except"}
\* the line is an object that main answers as a ping / hands to recognize
IsPing(l) == l.kind = "object" /\ StripLower(StrOr(l.type, "ocr")) = "ping"
IsOcr(l) == l.kind = "object" /\ ~IsPing(l)
Unparsable(l) == l.kind \in {"garbage", "nonobject"}
\* the image_path of the request is empty or names no file
BadPath(l) ==
    LET p == StrOr(l.image_path, "") IN p = "" \/ p \notin {"/blob.bin", "/scan.png"}
\* the engine and the session cache were not touched since the line was read
EngineUntouched ==
    /\ loc.invokes = 0
    /\ loc.ctors = 0
    /\ loc.pops = 0
    /\ cache = loc.cache0

\* C1: whenever the loop is about to read a line or has ended, one response
\* line has been written for every non-blank line read so far.
C1_OneResponsePerLine ==
    pc \in {"read", "done", "crashed"} => Len(stdout) = nRead

\* C2: the loop is left only when reading returns end-of-input; handling a
\* request never ends it.
C2_EndsOnlyAtEndOfInput ==
    [][(pc' \in {"done", "crashed"} /\ pc \notin {"done", "crashed"})
          => (pc = "read" /\ pc' = "done")]_vars

\* C3: the k-th response line was computed from the k-th non-blank line,
\* and while the n-th request is being handled exactly the n-1 earlier
\* responses have been written (one request in flight, none started before
\* the previous one was answered).
C3_InOrder ==
    /\ \A k \in 1..Len(stdout) : stdout[k] = k
    /\ (pc \in Processing => Len(stdout) = nRead - 1)
    /\ (pc = "read" => Len(stdout) = nRead)
C3_Witness == pc = "read" /\ nRead = 2 /\ stdout = <<1, 2>>

\* C4: the response to a line that is a JSON object carrying an id has that
\* id's string rendering as its id field.
C4_IdEchoed ==
    (Written /\ line.kind = "object" /\ line.id # None) => resp.id = line.id.txt

\* C5: handling a ping never touches the engine or the session cache, and
\* the response written for it is exactly {id, success: true}, whether or
\* not the engine loaded.
C5_PingAnswer ==
    IsPing(line) =>
        /\ EngineUntouched
        /\ Written => /\ DOMAIN resp = {"id", "success"}
                      /\ resp.success = TRUE
                      /\ resp.id = StrOr(line.id, "")
C5_Witness ==
    IsPing(line) /\ Written /\ nRead = 2 /\ DOMAIN cache # {}

\* C6: a line that is not JSON, or JSON that is not an object, never
\* touches the engine and is answered with success=false, an error message
\* and the empty id.
C6_MalformedLine ==
    Unparsable(line) =>
        /\ EngineUntouched
        /\ pc # "crashed"
        /\ (pc \in {"read", "done"} => Written)
        /\ Written => /\ resp.success = FALSE
                      /\ resp.id = ""
                      /\ "error" \in DOMAIN resp
                      /\ resp.error # <<>>
C6_Witness == line = NonObject /\ Written /\ nRead = 2

C8_RetryOnce ==
    /\ loc.runPops <= 1 /\ loc.runCtors <= 1 /\ loc.runInvokes <= 2
    /\ (loc.runFirst # <<>> /\ pc # "recreate")
          => (loc.runPops = 1 /\ loc.runCtors = 1)
    /\ loc.runInvokes = 2
          => (loc.runFirst # <<>> /\ loc.ocr # loc.runFirst[1].h)
    /\ pc = "reinvoke"
          => /\ loc.runInvokes = 1
             /\ loc.profile \in DOMAIN cache
             /\ cache[loc.profile] = loc.ocr
             /\ loc.ocr # loc.runFirst[1].h
    /\ loc.runStatus = "failed_twice"
          => /\ pc \in {"except", "read", "done", "crashed"}
             /\ loc.runFirst # <<>> /\ loc.runSecond # <<>>
             /\ loc.exc = <<Prefixed("run_failed: ", loc.runFirst[1]),
                            Prefixed("recreate_failed: ", loc.runSecond[1])>>
             /\ Written => (resp.success = FALSE /\ resp.error = loc.exc)
C8_Witness ==
    loc.runStatus = "failed_twice" /\ loc.runInvokes = 2 /\ Written

\* C9: when, in a request in which nothing else failed, the engine raised
\* on the first use of the session (the run on the original image) and
\* returned after the rebuild, the response has success=true and exactly
\* one rebuild message in backend_errors.
OneRebuildMessage(errs) ==
    Cardinality({i \in 1..Len(errs) : errs[i].tag = <<"recreated_session_ok">>}) = 1
C9_RecoveredRun ==
    (Written /\ "original" \in loc.recovered /\ faults = loc.faults0 + 1)
        => (resp.success = TRUE /\ OneRebuildMessage(resp.backend_errors))

\* C10 as stated: while no engine invocation has failed, the constructor
\* has run at most once per profile and one handle served every invocation
\* of a profile.
C10_Original ==
    ~hist.invokeFailed =>
        \A p \in CacheKeys :
            hist.ctorRuns[p] <= 1 /\ Cardinality(hist.used[p]) <= 1
\* C10 amended: while no engine invocation has failed, the constructor has
\* returned at most once per profile, the session it returned is the one
\* cached, and that handle served every invocation of the profile.
C10_SessionCached ==
    ~hist.invokeFailed =>
        \A p \in CacheKeys :
            /\ hist.ctorOks[p] <= 1
            /\ Cardinality(hist.used[p]) <= 1
            /\ (p \in DOMAIN cache <=> hist.ctorOks[p] = 1)
            /\ (hist.used[p] # {} => (p \in DOMAIN cache /\ hist.used[p] = {cache[p]}))
C10_Witness ==
    /\ ~hist.invokeFailed
    /\ nRead = 2
    /\ Written /\ resp.success = TRUE
    /\ loc.invokes >= 1 /\ loc.ctors = 0
    /\ hist.ctorOks[loc.profile] = 1

\* the response written is the payload of a finished recognize
Recognized == Written /\ "variant" \in DOMAIN resp

\* the original image, then the variants that could be saved, in the
\* order build_variants returned them
Kept(l) ==
    LET keep(n) == n \notin l.skipped
    IN  <<"original">> \o SelectSeq(l.built, keep)
\* the image a candidate is computed from
ImageOf(l, name) == IF name = "original" THEN l.image_path ELSE name

\* C11: the result reported for a request is the first-computed candidate
\* among those of the highest score, the candidates being the original
\* image and then the variants in generation order: every candidate
\* computed before the reported one scored strictly lower, none computed
\* after it scored higher, and the text, the lines and the line count
\* reported are those of the candidate the variant name says.
C11_FirstBestWins ==
    Recognized =>
        /\ loc.cands = Kept(loc)
        /\ \E i \in 1..Len(loc.cands) : loc.cands[i] = resp.variant
        /\ resp.text.img = ImageOf(loc, resp.variant)
        /\ resp.lines = resp.text
        /\ resp.line_count = resp.text.n
        /\ loc.hiBefore < score_lines(resp.lines)
        /\ loc.hiAfter <= score_lines(resp.lines)

\* a variant tied with the original at the highest score, and the original
\* was reported
C11_Witness ==
    /\ Recognized
    /\ resp.variant = "original"
    /\ Len(loc.cands) >= 2
    /\ loc.hiAfter = score_lines(resp.lines)

\* C12: a request in which one variant failed to render or to be saved, and
\* nothing else failed, ends with a success response built from the
\* original and the remaining variants.
C12_OneVariantSkipped ==
    (/\ Written
     /\ loc.profile = "pdf"
     /\ loc.renderFailed \/ loc.skipped # {}
     /\ faults = loc.faults0 + 1)
    => /\ resp.success
       /\ loc.cands = Kept(loc)

\* C13: at most one temporary directory is created per request, and none
\* is left once recognize has returned or raised.
C13_TempDirScoped ==
    /\ loc.tds <= 1
    /\ pc \in {"read", "parse", "recognize", "variants", "write", "except",
               "done", "crashed"} => ~loc.td

\* the engine failed twice on a variant: recognize raised from inside the
\* with block
C13_Witness ==
    /\ pc = "except"
    /\ loc.tds = 1
    /\ loc.name # "original"
    /\ loc.runStatus = "failed_twice"

\* a call of build_variants has returned
VariantsReturned == pc = "returned" /\ arg.fn = "build_variants"

\* C14 as stated: build_variants returns the empty list whenever the
\* multipass level is 0 or the image is missing.
C14_Original ==
    (VariantsReturned /\ arg.via \in {"worker", "cli"}
     /\ (arg.multipass = 0 \/ ~arg.image))
    => res[1] = <<>>

\* C14 (amended): build_variants returns the empty list whenever the image
\* is missing; ocr_cli.py's also whenever the multipass level is 0 or
\* less; and recognize, which loads no image at level 0 or less, gets no
\* variant at that level.
C14_NoVariants ==
    VariantsReturned =>
        /\ ~arg.image => res[1] = <<>>
        /\ (arg.via \in {"cli", "recognize"} /\ arg.multipass <= 0)
              => res[1] = <<>>

\* recognize at level 0 on an image with profile pdf got no variant
C14_Witness ==
    /\ VariantsReturned
    /\ arg.via = "recognize"
    /\ arg.image
    /\ arg.profile = "pdf"
    /\ arg.multipass = 0
    /\ res[1] = <<>>

\* the positions of a name in a list of variants
Positions(vs, name) == {i \in 1..Len(vs) : vs[i] = name}

\* C15: for a present image and a multipass level of at least 1, profile
\* pdf gives enhance2x first, gray2x exactly when the level is at least 2,
\* enhance2x_rot180 exactly when rotate180 is set, in that order and
\* nothing else; profile default gives the empty list.
C15_VariantList ==
    (VariantsReturned /\ arg.image /\ arg.multipass >= 1) =>
        LET vs == res[1]
            gray == Positions(vs, "gray2x")
            rot == Positions(vs, "enhance2x_rot180")
        IN  /\ arg.profile = "default" => vs = <<>>
            /\ arg.profile = "pdf" =>
                  /\ vs # <<>> /\ Positions(vs, "enhance2x") = {1}
                  /\ gray = (IF arg.multipass >= 2 THEN {2} ELSE {})
                  /\ rot = (IF arg.rotate180 THEN {Len(vs)} ELSE {})
                  /\ Len(vs) = 1 + Cardinality(gray) + Cardinality(rot)

\* level 2 with rotate180 on profile pdf returned exactly the three
C15_Witness ==
    /\ VariantsReturned
    /\ arg.via = "cli"
    /\ arg.image /\ arg.profile = "pdf"
    /\ arg.multipass = 2 /\ arg.rotate180
    /\ res[1] = <<"enhance2x", "gray2x", "enhance2x_rot180">>

\* a call of reorder_lines_by_box has returned
Reordered == pc = "returned" /\ arg.fn = "reorder_lines_by_box"
Count(q, x) == Cardinality({i \in 1..Len(q) : q[i] = x})
\* the lines without a usable box, in their order
Unboxed(lines) ==
    LET bare(ln) == ~HasMetrics(ln)
    IN  SelectSeq(lines, bare)

\* C16: the output of reorder_lines_by_box holds every fragment of the
\* input as often as the input does, and the fragments without a usable
\* box come last, in their original order.
C16_SameFragments ==
    Reordered =>
        LET out == res[1].out
            bare == Unboxed(arg.lines)
        IN  /\ \A x \in Range(arg.lines) \cup Range(out) :
                  Count(out, x) = Count(arg.lines, x)
            /\ Len(out) >= Len(bare)
            /\ SubSeq(out, Len(out) - Len(bare) + 1, Len(out)) = bare

\* a call of reorder_lines_by_box or of cluster_rows has returned
Clustered ==
    pc = "returned" /\ arg.fn \in {"reorder_lines_by_box", "cluster_rows"}
\* the lowest bottom of the first k fragments of a row
Bottom(row, k) == MaxOf({row[j].maxy : j \in 1..k})

\* C17 as stated: in every row, the top of every fragment is within the
\* row tolerance of the top of the row's first fragment.
C17_Original ==
    Clustered =>
        \A r \in 1..Len(res[1].rows) :
            LET row == res[1].rows[r]
            IN  \A k \in 1..Len(row) :
                    20 * Abs(row[k].miny - row[1].miny) <= res[1].tol20

\* C17 (amended): in every row, the top of every fragment after the first
\* is at most the row tolerance below the lowest bottom of the fragments
\* before it in the row, and the first fragment of every later row lies
\* more than the tolerance below the lowest bottom of the row before.
C17_Chained ==
    Clustered =>
        LET rows == res[1].rows
        IN  /\ \A r \in 1..Len(rows) :
                  /\ rows[r] # <<>>
                  /\ \A k \in 2..Len(rows[r]) :
                        20 * rows[r][k].miny
                            <= 20 * Bottom(rows[r], k - 1) + res[1].tol20
            /\ \A r \in 2..Len(rows) :
                  20 * rows[r][1].miny
                      > 20 * Bottom(rows[r - 1], Len(rows[r - 1])) + res[1].tol20

\* a row chained through a tall fragment: its last fragment starts more
\* than the tolerance below the top of its first, and a second row follows
C17_Witness ==
    /\ Clustered
    /\ Len(res[1].rows) = 2
    /\ LET row == res[1].rows[1]
       IN  /\ Len(row) >= 2
           /\ 20 * (row[Len(row)].miny - row[1].miny) > res[1].tol20

\* a span has been put into its bucket
Zoned == pc = "returned" /\ arg.fn = "region_for"
Zones ==
    {"header_left", "header_right", "buyer", "password", "items", "seller",
     "remarks", "footer"}
\* the part of the page each zone covers, the earlier rules of the list
\* excluded
InZone(z, cx, cy) ==
    CASE z = "header_left" -> cy < 220 /\ cx < 550
      [] z = "header_right" -> cy < 220 /\ cx >= 550
      [] z = "password" -> cy >= 220 /\ cy < 560 /\ cx >= 580
      [] z = "buyer" -> cy >= 220 /\ cy < 400 /\ cx < 580
      [] z = "items" -> cy >= 400 /\ cy < 720 /\ ~(cx >= 580 /\ cy < 560)
      [] z = "seller" -> cy >= 720 /\ cy < 930 /\ cx < 580
      [] z = "remarks" -> cy >= 720 /\ cy < 930 /\ cx >= 580
      [] z = "footer" -> cy >= 930

\* C18: region_for maps every normalised centre to exactly one of the
\* eight zones, the one of the first rule of the list that matches: a
\* centre on a threshold goes where the comparison of the rule sends it.
C18_ZoneRules ==
    Zoned =>
        /\ res[1].out \in Zones
        /\ InZone(res[1].out, res[1].cx, res[1].cy)
        /\ \A z \in Zones : InZone(z, res[1].cx, res[1].cy) => z = res[1].out

\* a centre exactly on cy = 0.22, right of cx = 0.58, is not in the header
C18_Witness ==
    /\ Zoned
    /\ res[1].cy = 220
    /\ res[1].cx >= 580
    /\ res[1].out = "password"

\* C19: in the default profile, applying apply_label_value_layout to its
\* own result returns that result unchanged.
C19_Idempotent ==
    (pc = "returned_twice" /\ arg.profile = "default")
    => res[2].out = res[1].out

\* the first call merged a value into a label and left more than one
\* fragment for the second call
C19_Witness ==
    /\ pc = "returned_twice"
    /\ arg.profile = "default"
    /\ res[1].run.used # {}
    /\ Len(res[1].out) >= 2
    /\ res[2].out = res[1].out

\* a call of apply_label_value_layout in the default profile has returned
Laid ==
    /\ pc = "returned"
    /\ arg.fn = "apply_label_value_layout"
    /\ arg.profile = "default"
\* the labels the loop looked for a value for, and those it found one for
Picks == {res[1].run.picks[k] : k \in 1..Len(res[1].run.picks)}
Found == {p \in Picks : p.best # 0}
\* where the line of index i of the input is in the list returned, when
\* it is not consumed
PlaceOf(i) == Cardinality({j \in 1..i : j \notin res[1].run.used})
\* the candidates of a label declared: boxed, not the label, not yet
\* consumed, not left of the label by more than 5, centres at most 22 apart
Eligible(p) ==
    {v \in 1..Len(arg.lines) : Candidate(arg.lines, p.used, p.label, v)}
ScoreOf(p, v) ==
    Score2(box_of(arg.lines[p.label]), box_of(arg.lines[v]))

Scored == pc = "returned" /\ arg.fn = "score_lines"

\* C21: score_lines returns 0 for the empty list, and appending a line
\* with non-negative confidence and non-empty text to any list never
\* lowers the score.
C21_ScoreMonotone ==
    Scored =>
        /\ (arg.lines = <<>> => res[1].num = 0)
        /\ (arg.more.confidence >= 0 /\ arg.more.text # <<>>
              => res[1].num * res[2].den <= res[2].num * res[1].den)

\* ------------------------------------------------------------------- C22
PdfDone == pc = "returned" /\ arg.fn = "pdf_text"
\* the mode the command line asks for: anything but ordered and raw,
\* however written, is zones
Requested ==
    IF Len(arg.argv) = 2 /\ arg.argv[2] \in {"ordered", "Ordered"} THEN "ordered"
    ELSE IF Len(arg.argv) = 2 /\ arg.argv[2] \in {"raw", " RAW "} THEN "raw"
    ELSE "zones"
HasZoned == \E i \in 1..Len(arg.doc) : arg.doc[i].zoned # <<>>
HasOrdered == \E i \in 1..Len(arg.doc) : arg.doc[i].ordered # <<>>
Uses(layout, text) ==
    res[1].layout = layout /\ res[1].text = text

\* C22: with zones requested the result is the zoned text if there is
\* one, else the row-ordered text if there is one, else the raw text; with
\* ordered requested the ordered text if there is one, else raw; with raw
\* requested always raw; layout names the text returned, and an
\* unrecognised mode counts as zones.
C22_LayoutFallback ==
    PdfDone =>
        CASE Requested = "zones" ->
                IF HasZoned
                THEN Uses("zones", res[1].zoned_text) /\ res[1].text # <<>>
                ELSE IF HasOrdered
                THEN Uses("ordered", res[1].ordered_text) /\ res[1].text # <<>>
                ELSE Uses("raw", res[1].raw_text)
          [] Requested = "ordered" ->
                IF HasOrdered
                THEN Uses("ordered", res[1].ordered_text) /\ res[1].text # <<>>
                ELSE Uses("raw", res[1].raw_text)
          [] Requested = "raw" -> Uses("raw", res[1].raw_text)

\* an unknown mode counted as zones, a document with rows on its second
\* page and no zoned text: the ordered text was returned
C22_Witness ==
    /\ PdfDone
    /\ arg.argv = <<"--layout", "columns">>
    /\ Len(arg.doc) = 2
    /\ ~HasZoned
    /\ arg.doc[2].ordered # <<>>
    /\ res[1].layout = "ordered"
    /\ res[1].raw_text # <<>>

\* ------------------------------------------------------------------- C23
\* C23: while one request is handled, the session of its profile is
\* dropped and rebuilt at most once, however many engine invocations (on
\* the original image and on each variant) fail.
C23_OneRebuildPerRequest == loc.pops <= 1

\* ------------------------------------------------------------------- C24
Permuted == pc = "returned_permuted"
AllBoxed == \A i \in 1..Len(arg.lines) : HasMetrics(arg.lines[i])
\* (top, left) of a line
Corner(ln) == <<Metrics(ln).miny, Metrics(ln).minx>>
NoSharedCorner ==
    \A i, j \in 1..Len(arg.lines) :
        i # j => Corner(arg.lines[i]) # Corner(arg.lines[j])
\* the place of the first of row k in the flattened output of call r
RowStart(r, k) == 1 + SumOver([j \in 1..(k - 1) |-> Len(r.rows[j])], 1)
\* the lines of row k of call r as the output has them
OutRow(r, k) == SubSeq(r.out, RowStart(r, k), RowStart(r, k) + Len(r.rows[k]) - 1)
\* rows from top to bottom, and every row from left to right
ReadingOrder(r) ==
    /\ \A k \in 1..(Len(r.rows) - 1) :
          MinOf({Metrics(x).miny : x \in Range(OutRow(r, k))})
            <= MinOf({Metrics(x).miny : x \in Range(OutRow(r, k + 1))})
    /\ \A k \in 1..Len(r.rows) : \A i \in 1..(Len(r.rows[k]) - 1) :
          Metrics(OutRow(r, k)[i]).minx <= Metrics(OutRow(r, k)[i + 1]).minx
\* the place of line x in the list q
PlaceIn(q, x) == CHOOSE i \in 1..Len(q) : q[i] = x

\* C24 as stated: for lines that all have boxes, every order of the input
\* gives the same output, rows from top to bottom and each row from left
\* to right.
C24_Original ==
    (Permuted /\ AllBoxed) =>
        /\ res[2].out = res[1].out
        /\ ReadingOrder(res[2])

\* C24 (amended): for lines that all have boxes, the output has its rows
\* from top to bottom and each row from left to right; lines that share
\* top and left keep the order the input gave them, and when no two lines
\* share both, every order of the input gives the same output.
C24_OrderIndependent ==
    (Permuted /\ AllBoxed) =>
        /\ ReadingOrder(res[1])
        /\ ReadingOrder(res[2])
        /\ Len(res[2].out) = Len(arg.lines)
        /\ \A i, j \in 1..Len(res[2].lines) :
              (i < j /\ Corner(res[2].lines[i]) = Corner(res[2].lines[j]))
                => PlaceIn(res[2].out, res[2].lines[i])
                     < PlaceIn(res[2].out, res[2].lines[j])
        /\ (NoSharedCorner => res[2].out = res[1].out)

\* three boxed lines with different corners, in two rows, given in two
\* different orders, neither of them the reading order
C24_Witness ==
    /\ Permuted
    /\ AllBoxed
    /\ NoSharedCorner
    /\ Len(arg.lines) = 3
    /\ Len(res[1].rows) = 2
    /\ res[2].lines # arg.lines
    /\ res[1].out # arg.lines
    /\ res[1].out # res[2].lines

\* ------------------------------------------------------------------- C25
\* the line of index v starts at or right of the label's right side less
\* 5, and its centre is at most 22 above or below the label's (centres
\* are kept doubled)
RightOfLabel(l, v) ==
    box_of(arg.lines[v]).left >= box_of(arg.lines[l]).right - 5
OnLabelRow(l, v) ==
    Abs(box_of(arg.lines[v]).cy2 - box_of(arg.lines[l]).cy2) <= 2 * 22
\* the line of index v may be the value of the label of pick p
Fits(p, v) ==
    /\ v # p.label
    /\ v \notin p.used
    /\ box_of(arg.lines[v]) # NoBox
    /\ RightOfLabel(p.label, v)
    /\ OnLabelRow(p.label, v)
\* twice 10 * |dy| + (value.left - label.right)
Cost2(l, v) ==
    10 * Abs(box_of(arg.lines[v]).cy2 - box_of(arg.lines[l]).cy2)
      + 2 * (box_of(arg.lines[v]).left - box_of(arg.lines[l]).right)

\* C25: the value chosen for a label is an unconsumed fragment other than
\* the label, with left >= label.right - 5 and centres at most 22 apart
\* in height; among all such fragments it has the least cost
\* 10 * |dy| + (value.left - label.right), and of fragments of equal cost
\* the earlier in input order is chosen. Every fragment consumed was chosen
\* that way.
C25_BestValue ==
    Laid =>
        /\ \A p \in Found :
              /\ Fits(p, p.best)
              /\ \A w \in 1..Len(arg.lines) :
                    Fits(p, w) =>
                        \/ Cost2(p.label, p.best) < Cost2(p.label, w)
                        \/ /\ Cost2(p.label, p.best) = Cost2(p.label, w)
                           /\ p.best <= w
        /\ \A u \in res[1].run.used : \E p \in Found : p.best = u

\* a label chose a value that comes after a fragment to its right that is
\* too far below it
C25_Witness ==
    /\ Laid
    /\ \E p \in Found : \E w \in 1..Len(arg.lines) :
          /\ w < p.best
          /\ w # p.label
          /\ box_of(arg.lines[w]) # NoBox
          /\ RightOfLabel(p.label, w)
          /\ ~OnLabelRow(p.label, w)
          /\ p.best \in res[1].run.used

\* ------------------------------------------------------------------- C26
RunBegun == arg.fn = "run_with_fallback" /\ pc # "call"
\* the text of message m is prefix, the text of e, and the rest
Carries(m, prefix, e, rest) ==
    m = [e EXCEPT !.tag = <<prefix>> \o @ \o rest]

\* C26: a run of the engine in ocr_cli.py tries the forced parameters and
\* then the defaults, the defaults only after the forced parameters
\* failed. The backend is "fallback_default" exactly when the first
\* attempt failed and the second returned, and errors is then the one
\* message of the first failure; otherwise it is "custom" with no errors;
\* when both fail one error with both messages is raised.
C26_TwoStep ==
    RunBegun =>
        LET r == res[1]
        IN  /\ r.tried \in {<<"custom">>, <<"custom", "default">>}
            /\ (pc = "fallback" => r.tried = <<"custom">>)
            /\ (r.tried = <<"custom", "default">> <=>
                    (r.first # <<>> /\ pc \in {"returned", "raised"}))
            /\ (pc = "returned" =>
                    /\ r.backend \in {"custom", "fallback_default"}
                    /\ r.backend = "fallback_default"
                         <=> (r.first # <<>> /\ r.second = <<>>
                              /\ r.tried = <<"custom", "default">>)
                    /\ r.backend = "fallback_default" =>
                         /\ Len(r.errors) = 1
                         /\ Carries(r.errors[1], "custom_params_failed: ",
                                    r.first[1], <<"; params=">>)
                    /\ r.backend = "custom" =>
                         r.errors = <<>> /\ r.first = <<>>
                    /\ r.raised = <<>>
                    /\ r.out.img = arg.path)
            /\ (pc = "raised" <=> (r.first # <<>> /\ r.second # <<>>))
            /\ (pc = "raised" =>
                    /\ Len(r.raised) = 2
                    /\ Carries(r.raised[1], "custom_params_failed: ",
                               r.first[1], <<"; params=">>)
                    /\ Carries(r.raised[2], "default_failed: ",
                               r.second[1], <<>>))

\* the forced parameters failed at the invocation and the defaults
\* returned a result
C26_Witness ==
    /\ RunBegun
    /\ pc = "returned"
    /\ res[1].backend = "fallback_default"
    /\ res[1].first = <<InferError(1)>>
    /\ res[1].out.n > 0

\* ------------------------------------------------------------------- C27
LaidAny == pc = "returned" /\ arg.fn = "apply_label_value_layout"
\* the picks that merged a value into their label, by their place in picks
Merges ==
    {k \in 1..Len(res[1].run.picks) :
        res[1].run.picks[k].best # 0 /\ res[1].run.picks[k].val # <<>>}
\* the indices of the input that are not consumed, in order
RECURSIVE KeptFrom(_)
KeptFrom(i) ==
    IF i > Len(arg.lines) THEN <<>>
    ELSE (IF i \in res[1].run.used THEN <<>> ELSE <<i>>) \o KeptFrom(i + 1)

\* C27: the merger leaves its input list as it was; a fragment is consumed
\* as a value by at most one label; the output is shorter than the input
\* by the number of fragments consumed; the fragments kept are in their
\* input order with box and confidence unchanged (and their text too,
\* unless the fragment is a label that took a value); the input is
\* returned as it is when nothing was merged or the profile is not default.
C27_Conserves ==
    LaidAny =>
        /\ res[1].run.input = arg.lines
        /\ \A j, k \in Merges :
              j # k => res[1].run.picks[j].best # res[1].run.picks[k].best
        /\ res[1].run.used = {res[1].run.picks[k].best : k \in Merges}
        /\ Len(res[1].out) = Len(arg.lines) - Cardinality(res[1].run.used)
        /\ Len(res[1].out) = Len(KeptFrom(1))
        /\ \A k \in 1..Len(res[1].out) :
              /\ res[1].out[k].box = arg.lines[KeptFrom(1)[k]].box
              /\ res[1].out[k].confidence = arg.lines[KeptFrom(1)[k]].confidence
              /\ (\A m \in Merges : res[1].run.picks[m].label # KeptFrom(1)[k])
                    => res[1].out[k] = arg.lines[KeptFrom(1)[k]]
        /\ (Merges = {} \/ arg.profile # "default") => res[1].out = arg.lines

\* of three fragments the first was consumed, by a label that comes
\* after another kept fragment
C27_Witness ==
    /\ LaidAny
    /\ Len(arg.lines) = 3
    /\ Len(res[1].out) = 2
    /\ res[1].run.used = {1}
    /\ \E m \in Merges : res[1].run.picks[m].label = 3
    /\ res[1].out[2].text # arg.lines[3].text

\* ------------------------------------------------------------------- C28
\* the request being handled, or the last one handled, ended in the second
\* failure of a run
FailedTwice == loc.runStatus = "failed_twice"
\* the request being handled follows one of its own profile that ended so
AfterFailure == loc.prevFailed # "" /\ loc.prevFailed = loc.profile

\* C28: after a request failed because the first invocation and the
\* rebuilt session both failed, the worker goes on reading (it stops only
\* if the answer cannot be encoded); the cache holds for that profile the
\* rebuilt session if its construction succeeded and nothing otherwise;
\* and the next request of that profile invokes the cached session, or a
\* newly built one, and is given one rebuild of its own.
C28_NotAbsorbing ==
    /\ FailedTwice =>
          /\ (loc.runSecond[1] = CtorError(loc.profile)
                => loc.profile \notin DOMAIN cache)
          /\ (loc.runSecond[1] # CtorError(loc.profile)
                => /\ loc.profile \in DOMAIN cache
                   /\ cache[loc.profile] = loc.ocr
                   /\ loc.runSecond[1] = InferError(loc.ocr)
                   /\ loc.ocr # loc.runFirst[1].h)
          /\ (Written => pc \in {"read", "done"} /\ ok)
          /\ (pc = "crashed" => ~Encodable(loc.req_id))
    /\ (AfterFailure /\ loc.name = "original" /\ loc.runInvokes >= 1) =>
          /\ loc.profile \in DOMAIN loc.cache0
                => loc.ctors = loc.pops /\ (loc.pops = 0 => loc.ocr = loc.cache0[loc.profile])
          /\ loc.profile \notin DOMAIN loc.cache0 => loc.ctors = loc.pops + 1
          /\ (loc.runFirst # <<>> /\ pc # "recreate")
                => (loc.runPops = 1 /\ loc.runCtors = 1)
          /\ loc.runStatus = "returned" /\ loc.runFirst # <<>>
                => /\ "original" \in loc.recovered
                   /\ loc.ocr # loc.runFirst[1].h

\* the second request, of the same profile as the first one that failed
\* twice, met a failure of its own, got its session rebuilt and was
\* answered with a result
C28_Witness ==
    /\ AfterFailure
    /\ nRead = 2
    /\ "original" \in loc.recovered
    /\ Recognized
    /\ resp.success = TRUE

\* ------------------------------------------------------------------- C29
\* the run on a variant image failed on the first attempt and after the
\* rebuild
VariantFailedTwice == FailedTwice /\ loc.name # "original"

\* C29: when the engine fails on a variant image on the first attempt and
\* after the rebuild, the request is answered with success=false and an
\* error, and with nothing of the results the original image and earlier
\* variants had given.
C29_VariantFailureFailsRequest ==
    VariantFailedTwice =>
        /\ loc.best # NoResult
        /\ loc.cands # <<>> /\ loc.cands[1] = "original"
        /\ loc.payload = NoResp
        /\ Written =>
              /\ resp.success = FALSE
              /\ resp.error = loc.exc
              /\ resp.id = loc.req_id
              /\ DOMAIN resp = {"id", "success", "error", "traceback"}

\* the original image and the first variant had given results with text
\* when the second variant failed twice, and the failure was answered
C29_Witness ==
    /\ VariantFailedTwice
    /\ Written
    /\ Len(loc.cands) = 2
    /\ loc.best.line_count > 0
    /\ loc.recovered = {}

\* ------------------------------------------------------------------- C30
\* the type and the profile main reads from an object line (lines 528, 535)
TypeOf(l) == StrOr(l.type, "ocr")
ProfileOf(l) == StrOr(l.profile, "default")
\* the profile the request is to be processed under: pdf when the profile,
\* trimmed and lowercased, is pdf, else default
Wanted(l) == IF StripLower(ProfileOf(l)) = "pdf" THEN "pdf" ELSE "default"
\* recognize has been entered and has not returned or raised
InRecognize ==
    pc \in {"recognize", "get_ocr", "invoke", "recreate", "reinvoke",
            "variants", "save"}
\* the answer written is the ping answer
PingAnswered == Written /\ DOMAIN resp = {"id", "success"}
\* the session cache differs from the one the request found at most at key k
CacheTouchedOnlyAt(k) ==
    \A x \in (DOMAIN cache) \cup (DOMAIN loc.cache0) :
        x # k => /\ x \in DOMAIN cache
                 /\ x \in DOMAIN loc.cache0
                 /\ cache[x] = loc.cache0[x]

\* C30 as stated: every object line whose type is not the string ping is
\* processed as an OCR request and every profile that is not the string pdf
\* is processed as default; the cache holds only the keys default and pdf
\* and a profile field of a response is one of the two.
C30_Original ==
    /\ (line.kind = "object" /\ TypeOf(line) # "ping") => ~PingAnswered
    /\ (Recognized /\ ProfileOf(line) # "pdf") => resp.profile = "default"
    /\ DOMAIN cache \subseteq CacheKeys
    /\ (Written /\ "profile" \in DOMAIN resp) => resp.profile \in CacheKeys

\* C30 (amended): type and profile are compared after trimming and
\* lowercasing.  An object line whose type is then not ping (missing or
\* unknown included) is handed to recognize and never answered as a ping;
\* a profile that is then not pdf (missing or unknown included) is
\* processed as default: the request touches the session cache at that key
\* only, the cache holds only the keys default and pdf, and a profile field
\* of a response is the key the request was processed under.
C30_Defaulted ==
    /\ InRecognize => IsOcr(line)
    /\ IsOcr(line) => ~PingAnswered
    /\ (IsOcr(line) /\ pc \in {"get_ocr", "invoke", "recreate", "reinvoke",
                              "variants", "save"})
          => loc.profile = Wanted(line)
    /\ line.kind = "object" => CacheTouchedOnlyAt(Wanted(line))
    /\ DOMAIN cache \subseteq CacheKeys
    /\ (Written /\ "profile" \in DOMAIN resp) => resp.profile = Wanted(line)

\* a request with an unknown profile was recognized under default on the
\* session an earlier request had built
C30_Witness ==
    /\ Recognized
    /\ line.profile = JStr("a4")
    /\ resp.profile = "default"
    /\ nRead = 2
    /\ loc.ctors = 0
    /\ DOMAIN cache = {"default"}
====
